---- MODULE Spec2Model ----
(***************************************************************************)
(* Model of the cumulative-metrics engine of FuelMonitorApi.               *)
(*                                                                         *)
(*   internal/database (src/unnamed/part_002): the calculators             *)
(*       calculateStateRuntime, hasGeneratorActivity, CalculateFuelChanges,*)
(*       CalculatePowerRuntimes and the upsert of cumulative_readings.     *)
(*   internal/handlers (src/unnamed/part_000, from line 103): the          *)
(*       single-day handler GetCumulativeReadings with its batches.        *)
(*                                                                         *)
(* Numbers.  The code computes in float64.  The model computes in exact    *)
(* fixed point: every fuel value and every hour count is an integer number *)
(* of thousandths (50.0 is 50000, the threshold 2.0 is 2000).  Clock       *)
(* readings are integer ticks; one tick is one hour, and the resolution of *)
(* the clock (1ns in the code) is one tick, so that the day                *)
(* [startOfDay, startOfDay + 24h - 1ns] is the ticks 0..23.                *)
(***************************************************************************)
EXTENDS Integers, Sequences, FiniteSets, TLC

VARIABLES
    sensor_readings,      \* table sensor_readings: per device and date, the day's rows
    calc,                 \* the last direct call of a calculator and its result
    cumulative_readings,  \* table cumulative_readings: a set of rows
    wallClock,            \* time.Now(), advanced by every statement that reads it
    user_sites,           \* per client: the sites GetSitesForUser returns for its user
    budget,               \* per client: single-day requests the client will still send
    req,                  \* per client: its single-day request, in flight or answered
    events,               \* history: requests begun and answered, samples ingested
    dashboard             \* the worker pool of a dashboard read: channels and goroutines

vars == <<sensor_readings, calc, cumulative_readings, wallClock, user_sites,
          budget, req, events, dashboard>>

handlerVars == <<cumulative_readings, wallClock, user_sites, budget, req, events,
                 dashboard>>

(***************************************************************************)
(* Bounds of the model.                                                    *)
(***************************************************************************)
MaxStateSamples == 3   \* rows of the generator_state stream of a device
MaxZesaSamples == 1    \* rows of the zesa_state stream of a device
MaxFuelRows == 3       \* fuel_sensor_level / fuel_sensor_volume rows of a device
NumSites == 3          \* sites (one device each)
NumDates == 2          \* calendar days a request can name
MaxIngest == 1         \* samples that arrive while requests run
MaxResults == 2        \* results of a list passed to calculateSummary directly
MaxWindowDay == 3      \* calendar days passed to calculateDaysDifference directly

(***************************************************************************)
(* Program constants.                                                      *)
(***************************************************************************)
\* 24 * time.Hour, the length of the day.
HoursPerDay ==  24
\* changePercent < 2.0, in thousandths.
NoiseThreshold == 2000
\* const batchSize = 10, scaled to the sites of the model: the sites of a
\* request fill one whole batch and start another.
batchSize == 2

Sites == 1..NumSites
Dates == 1..NumDates
Clients == {1, 2}
\* The callers of the range endpoint.
RangeClients == {3}
AllClients == Clients \cup RangeClients

(***************************************************************************)
(* Arithmetic helpers.                                                     *)
(***************************************************************************)
Abs(x) == IF x < 0 THEN -x ELSE x

\* time.Duration.Hours(): a duration in ticks as thousandths of an hour.
Hours(d) == d * 1000

RECURSIVE SeqsUpTo(_, _)
\* All sequences over S of length at most n.
SeqsUpTo(S, n) ==
    IF n = 0 THEN {<<>>}
    ELSE LET shorter == SeqsUpTo(S, n - 1)
         IN  shorter \cup {Append(s, x) : s \in {t \in shorter : Len(t) = n - 1}, x \in S}

RECURSIVE SumSeq(_)
SumSeq(s) == IF s = <<>> THEN 0 ELSE Head(s) + SumSeq(Tail(s))

(***************************************************************************)
(* Sensor samples.  A state row is [time, value]; the rows of a stream are *)
(* kept in the order the queries return them (ORDER BY time ASC).  A fuel  *)
(* row is [sensor_name, value]; its position in the stream is its time     *)
(* order, and every fuel row lies in the day.                              *)
(***************************************************************************)
\* The day of the device-day rows starts at tick 0 and ends one tick before
\* the next day: startOfDay.Add(24 * time.Hour).Add(-1 * time.Nanosecond).
startOfDay == 0
endOfDay == startOfDay + HoursPerDay - 1

StateTexts == {"1", "1.0", "0", "on"}
SampleTimes == {0, 8, 9, 23, 24}
LevelTexts == {"48", "49.5", "50", "53", "abc"}
VolumeTexts == {"-1", "0", "49", "49.5", "50"}

StateRows == [time : SampleTimes, value : StateTexts]
FuelRows == [sensor_name : {"fuel_sensor_level"}, value : LevelTexts]
            \cup [sensor_name : {"fuel_sensor_volume"}, value : VolumeTexts]

TimeAscending(rows) == \A i \in 1..(Len(rows) - 1) : rows[i].time <= rows[i + 1].time

StateStreams(n) == {s \in SeqsUpTo(StateRows, n) : TimeAscending(s)}

\* The zesa_state streams of the model: rows at two clock readings.
ZesaRows == [time : {0, 8}, value : {"1", "0"}]
ZesaStreams(n) == {s \in SeqsUpTo(ZesaRows, n) : TimeAscending(s)}

\* strconv.ParseFloat on the texts of the model, in thousandths.
ParseFloat(text) ==
    CASE text = "-1"     -> [ok |-> TRUE, value |-> -1000]
      [] text = "0"      -> [ok |-> TRUE, value |-> 0]
      [] text = "48"     -> [ok |-> TRUE, value |-> 48000]
      [] text = "49"     -> [ok |-> TRUE, value |-> 49000]
      [] text = "49.5"   -> [ok |-> TRUE, value |-> 49500]
      [] text = "49.996" -> [ok |-> TRUE, value |-> 49996]
      [] text = "50"     -> [ok |-> TRUE, value |-> 50000]
      [] text = "53"     -> [ok |-> TRUE, value |-> 53000]
      [] OTHER           -> [ok |-> FALSE, value |-> 0]

(***************************************************************************)
(* calculateStateRuntime (part_002:299-349).                               *)
(***************************************************************************)
InWindow_Unbounded(rows, from, to) ==
    SelectSeq(rows, LAMBDA r : r.time >= from)

\* The WHERE clause of the state queries: time >= $3 AND time <= $4.
InWindow(rows, from, to) ==
    SelectSeq(rows, LAMBDA r : r.time >= from /\ r.time <= to)

IsOn_OnlyOne(valueStr) == valueStr = "1"

\* currentState := (valueStr == "1" || valueStr == "1.0")
IsOn(valueStr) == valueStr = "1" \/ valueStr = "1.0"

RECURSIVE StateWalk(_, _, _)
\* The rows.Next() loop: w is (runtime, lastTime, lastState, hasData).
StateWalk(rows, i, w) ==
    IF i > Len(rows) THEN w
    ELSE LET timestamp == rows[i].time
             currentState == IsOn(rows[i].value)
             added == IF w.hasData /\ w.lastState
                      THEN Hours(timestamp - w.lastTime) ELSE 0
         IN  StateWalk(rows, i + 1,
                       [runtime |-> w.runtime + added, lastTime |-> timestamp,
                        lastState |-> currentState, hasData |-> TRUE])

TailExtension_Never(w, to) == 0

\* The last state was ON and extends to the end of the day.
TailExtension(w, to) ==
    IF w.hasData /\ w.lastState /\ w.lastTime < to
    THEN Hours(to - w.lastTime) ELSE 0

calculateStateRuntime(rows, from, to) ==
    LET w == StateWalk(InWindow(rows, from, to), 1,
                       [runtime |-> 0, lastTime |-> 0, lastState |-> FALSE,
                        hasData |-> FALSE])
    IN  w.runtime + TailExtension(w, to)

(***************************************************************************)
(* hasGeneratorActivity (part_002:245-263): a count > 0 of the rows with   *)
(* value = '1' OR value = '1.0' in the window.                             *)
(***************************************************************************)
hasGeneratorActivity_AnyNonZero(rows, from, to) ==
    LET inWindow == InWindow(rows, from, to)
    IN  Cardinality({i \in 1..Len(inWindow) : inWindow[i].value # "0"}) > 0

hasGeneratorActivity(rows, from, to) ==
    LET inWindow == InWindow(rows, from, to)
    IN  Cardinality({i \in 1..Len(inWindow) :
                        inWindow[i].value = "1" \/ inWindow[i].value = "1.0"}) > 0

(***************************************************************************)
(* CalculateFuelChanges (part_002:135-242).                                *)
(***************************************************************************)
RECURSIVE ParsedReadings(_, _)
\* The scan loop: rows whose text does not parse are skipped, the others go
\* to the list of their sensor.
ParsedReadings(rows, sensorName) ==
    IF rows = <<>> THEN <<>>
    ELSE LET p == ParseFloat(Head(rows).value)
             rest == ParsedReadings(Tail(rows), sensorName)
         IN  IF p.ok /\ Head(rows).sensor_name = sensorName
             THEN <<p.value>> \o rest ELSE rest

LevelSkipped_AtThreshold(hasGeneratorRuntime, change) ==
    ~hasGeneratorRuntime /\ Abs(change) <= NoiseThreshold

\* if !hasGeneratorRuntime && changePercent < 2.0 { continue }
LevelSkipped(hasGeneratorRuntime, change) ==
    ~hasGeneratorRuntime /\ Abs(change) < NoiseThreshold

VolumeSkipped_GateAlways(hasGeneratorRuntime, prev, change) ==
    prev > 0 /\ Abs(change) * 1000 < (NoiseThreshold \div 100) * prev

VolumeSkipped_LevelRuleWithoutPrev(hasGeneratorRuntime, prev, change) ==
    ~hasGeneratorRuntime
    /\ IF prev > 0 THEN Abs(change) * 1000 < (NoiseThreshold \div 100) * prev
       ELSE Abs(change) < NoiseThreshold

\* if prev > 0 { changePercent := math.Abs(change) / prev * 100
\*               if !hasGeneratorRuntime && changePercent < 2.0 { continue } }
\* The comparison is multiplied through by prev > 0 and divided by 100, to
\* stay within TLC's integers.
VolumeSkipped(hasGeneratorRuntime, prev, change) ==
    prev > 0 /\ ~hasGeneratorRuntime
             /\ Abs(change) * 1000 < (NoiseThreshold \div 100) * prev

Accumulate_Signed(acc, change) ==
    IF change > 0 THEN [acc EXCEPT !.topped = @ + change]
    ELSE [acc EXCEPT !.consumed = @ + change]

Accumulate_Netted(acc, change) ==
    [consumed |-> IF acc.consumed - change > 0 THEN acc.consumed - change ELSE 0,
     topped   |-> IF acc.topped + change > 0 THEN acc.topped + change ELSE 0]

\* if change > 0 { topped += change } else if change < 0 { consumed += -change }
Accumulate(acc, change) ==
    IF change > 0 THEN [acc EXCEPT !.topped = @ + change]
    ELSE IF change < 0 THEN [acc EXCEPT !.consumed = @ + (-change)]
    ELSE acc

RECURSIVE LevelWalk(_, _, _, _)
\* for i := 1; i < len(levelReadings); i++
LevelWalk(readings, i, hasGeneratorRuntime, acc) ==
    IF i > Len(readings) THEN acc
    ELSE LET change == readings[i] - readings[i - 1]
         IN  LevelWalk(readings, i + 1, hasGeneratorRuntime,
                       IF LevelSkipped(hasGeneratorRuntime, change) THEN acc
                       ELSE Accumulate(acc, change))

RECURSIVE VolumeWalk(_, _, _, _)
\* for i := 1; i < len(volumeReadings); i++
VolumeWalk(readings, i, hasGeneratorRuntime, acc) ==
    IF i > Len(readings) THEN acc
    ELSE LET prev == readings[i - 1]
             change == readings[i] - prev
         IN  VolumeWalk(readings, i + 1, hasGeneratorRuntime,
                        IF VolumeSkipped(hasGeneratorRuntime, prev, change) THEN acc
                        ELSE Accumulate(acc, change))

ZeroFuelMetrics ==
    [TotalFuelConsumed |-> 0, TotalFuelTopped |-> 0,
     FuelConsumedPercent |-> 0, FuelToppedPercent |-> 0]

\* The value CalculateFuelChanges returns when no query fails; day is the
\* device's rows, [generator_state, zesa_state, fuel].
CalculateFuelChanges(day) ==
    LET hasGeneratorRuntime ==
            hasGeneratorActivity(day.generator_state, startOfDay, endOfDay)
        levelReadings == ParsedReadings(day.fuel, "fuel_sensor_level")
        volumeReadings == ParsedReadings(day.fuel, "fuel_sensor_volume")
        zero == [consumed |-> 0, topped |-> 0]
        level == LevelWalk(levelReadings, 2, hasGeneratorRuntime, zero)
        volume == VolumeWalk(volumeReadings, 2, hasGeneratorRuntime, zero)
    IN  [TotalFuelConsumed |-> volume.consumed, TotalFuelTopped |-> volume.topped,
         FuelConsumedPercent |-> level.consumed, FuelToppedPercent |-> level.topped]

(***************************************************************************)
(* CalculatePowerRuntimes (part_002:266-296).                              *)
(***************************************************************************)
OfflineHours_Unclamped(generatorHours, zesaHours) ==
    Hours(HoursPerDay) - (generatorHours + zesaHours)

\* offlineHours := 0.0; if totalActiveHours < 24 { offlineHours = 24 - totalActiveHours }
OfflineHours(generatorHours, zesaHours) ==
    LET totalActiveHours == generatorHours + zesaHours
    IN  IF totalActiveHours < Hours(HoursPerDay)
        THEN Hours(HoursPerDay) - totalActiveHours ELSE 0

ZeroPowerMetrics ==
    [TotalGeneratorRuntime |-> 0, TotalZesaRuntime |-> 0, TotalOfflineTime |-> 0]

CalculatePowerRuntimes(day) ==
    LET generatorHours == calculateStateRuntime(day.generator_state, startOfDay, endOfDay)
        zesaHours == calculateStateRuntime(day.zesa_state, startOfDay, endOfDay)
    IN  [TotalGeneratorRuntime |-> generatorHours, TotalZesaRuntime |-> zesaHours,
         TotalOfflineTime |-> OfflineHours(generatorHours, zesaHours)]

(***************************************************************************)
(* The calculators called directly on one device-day.                      *)
(***************************************************************************)
EmptyDay == [generator_state |-> <<>>, zesa_state |-> <<>>, fuel |-> <<>>]

NoCall ==
    [op |-> "none", sensor |-> "", err |-> FALSE, hours |-> 0, active |-> FALSE,
     fuel |-> ZeroFuelMetrics, power |-> ZeroPowerMetrics, args |-> <<>>,
     summary |-> <<>>]

\* The device-day the direct calls read.  The calculators change no state,
\* so one call per behaviour shows every result.
TheDay == sensor_readings[1][1]

\* db.calculateStateRuntime(deviceID, sensorName, startOfDay, endOfDay)
CallStateRuntime(sensorName) ==
    /\ calc.op = "none"
    /\ \E failed \in BOOLEAN :
         calc' = [NoCall EXCEPT
                    !.op = "calculateStateRuntime", !.sensor = sensorName,
                    !.err = failed,
                    !.hours = IF failed THEN 0
                              ELSE calculateStateRuntime(TheDay[sensorName],
                                                         startOfDay, endOfDay)]
    /\ UNCHANGED <<sensor_readings, handlerVars>>

\* db.hasGeneratorActivity(deviceID, startOfDay, endOfDay): false with the
\* error when the query fails.
CallGeneratorActivity ==
    /\ calc.op = "none"
    /\ \E failed \in BOOLEAN :
         calc' = [NoCall EXCEPT
                    !.op = "hasGeneratorActivity", !.err = failed,
                    !.active = IF failed THEN FALSE
                               ELSE hasGeneratorActivity(TheDay.generator_state,
                                                         startOfDay, endOfDay)]
    /\ UNCHANGED <<sensor_readings, handlerVars>>

\* db.CalculateFuelChanges(deviceID, targetDate)
CallFuelChanges ==
    /\ calc.op = "none"
    /\ \E failed \in BOOLEAN :
         calc' = [NoCall EXCEPT
                    !.op = "CalculateFuelChanges", !.err = failed,
                    !.fuel = IF failed THEN ZeroFuelMetrics
                             ELSE CalculateFuelChanges(TheDay)]
    /\ UNCHANGED <<sensor_readings, handlerVars>>

\* db.CalculatePowerRuntimes(deviceID, targetDate)
CallPowerRuntimes ==
    /\ calc.op = "none"
    /\ \E failed \in BOOLEAN :
         calc' = [NoCall EXCEPT
                    !.op = "CalculatePowerRuntimes", !.err = failed,
                    !.power = IF failed THEN ZeroPowerMetrics
                              ELSE CalculatePowerRuntimes(TheDay)]
    /\ UNCHANGED <<sensor_readings, handlerVars>>

(***************************************************************************)
(* Table cumulative_readings and its upsert (part_002:72-132).             *)
(***************************************************************************)
Format2_Truncating(v) == (v \div 10) * 10

\* fmt.Sprintf("%.2f", v) of a non-negative v: the text of v rounded to two
\* decimals, kept as the thousandths it denotes.
Format2(v) == ((v + 5) \div 10) * 10

\* The row of VALUES ($1 .. $12).
NewRow(siteID, deviceID, date, fuelMetrics, powerMetrics, now) ==
    [site_id |-> siteID, device_id |-> deviceID, date |-> date,
     total_fuel_consumed |-> Format2(fuelMetrics.TotalFuelConsumed),
     total_fuel_topped_up |-> Format2(fuelMetrics.TotalFuelTopped),
     fuel_consumed_percent |-> Format2(fuelMetrics.FuelConsumedPercent),
     fuel_topped_up_percent |-> Format2(fuelMetrics.FuelToppedPercent),
     total_generator_runtime |-> Format2(powerMetrics.TotalGeneratorRuntime),
     total_zesa_runtime |-> Format2(powerMetrics.TotalZesaRuntime),
     total_offline_time |-> Format2(powerMetrics.TotalOfflineTime),
     calculated_at |-> now, created_at |-> now]

UpdatedRow_Replaced(old, excluded) == excluded

\* DO UPDATE SET <the seven metric columns and calculated_at> = EXCLUDED.<column>
UpdatedRow(old, excluded) ==
    [old EXCEPT
       !.total_fuel_consumed = excluded.total_fuel_consumed,
       !.total_fuel_topped_up = excluded.total_fuel_topped_up,
       !.fuel_consumed_percent = excluded.fuel_consumed_percent,
       !.fuel_topped_up_percent = excluded.fuel_topped_up_percent,
       !.total_generator_runtime = excluded.total_generator_runtime,
       !.total_zesa_runtime = excluded.total_zesa_runtime,
       !.total_offline_time = excluded.total_offline_time,
       !.calculated_at = excluded.calculated_at]

Upsert_PlainInsert(table, row) == table \cup {row}

\* INSERT ... ON CONFLICT (site_id, date) DO UPDATE: one atomic statement.
Upsert(table, row) ==
    LET conflict == {r \in table : r.site_id = row.site_id /\ r.date = row.date}
    IN  IF conflict = {} THEN table \cup {row}
        ELSE (table \ conflict) \cup {UpdatedRow(r, row) : r \in conflict}

\* GetExistingCumulativeReadings (part_002:14-69): WHERE date = $1 AND site_id IN (...)
GetExistingCumulativeReadings(table, date, sites) ==
    IF Len(sites) = 0 THEN {}
    ELSE {r \in table : r.date = date /\ \E i \in 1..Len(sites) : sites[i] = r.site_id}

(***************************************************************************)
(* Results and summary of the single-day handler (part_000).               *)
(***************************************************************************)
DeviceOf(site) == site

ErrorResult(site, message) ==
    [SiteID |-> site, Status |-> "ERROR", Error |-> message,
     FuelConsumed |-> 0, FuelTopped |-> 0, FuelConsumedPercent |-> 0,
     FuelToppedPercent |-> 0, GeneratorHours |-> 0, ZesaHours |-> 0,
     OfflineHours |-> 0]

IssuesUpsert_FuelOnly(fuelErr, powerErr) == ~fuelErr

SiteResult_StatusSwapped(site, hasExisting, fuelErr, powerErr, fuelMetrics, powerMetrics, saveErr) ==
    IF fuelErr \/ powerErr THEN ErrorResult(site, "Calculation error")
    ELSE IF saveErr
    THEN ErrorResult(site, "failed to create or update cumulative reading")
    ELSE [SiteID |-> site,
          Status |-> IF hasExisting THEN "CREATED" ELSE "UPDATED",
          Error |-> "",
          FuelConsumed |-> fuelMetrics.TotalFuelConsumed,
          FuelTopped |-> fuelMetrics.TotalFuelTopped,
          FuelConsumedPercent |-> fuelMetrics.FuelConsumedPercent,
          FuelToppedPercent |-> fuelMetrics.FuelToppedPercent,
          GeneratorHours |-> powerMetrics.TotalGeneratorRuntime,
          ZesaHours |-> powerMetrics.TotalZesaRuntime,
          OfflineHours |-> powerMetrics.TotalOfflineTime]

\* processSingleSite:323: if fuelErr != nil || powerErr != nil { return ERROR }
IssuesUpsert(fuelErr, powerErr) == ~(fuelErr \/ powerErr)

\* processSingleSite:323-370: the result it returns.  hasExisting is
\* existingReading != nil; saveErr is the error of the upsert (FALSE when
\* none was issued).
SiteResult(site, hasExisting, fuelErr, powerErr, fuelMetrics, powerMetrics, saveErr) ==
    IF ~IssuesUpsert(fuelErr, powerErr) THEN ErrorResult(site, "Calculation error")
    ELSE IF saveErr
    THEN ErrorResult(site, "failed to create or update cumulative reading")
    ELSE [SiteID |-> site,
          Status |-> IF hasExisting THEN "UPDATED" ELSE "CREATED",
          Error |-> "",
          FuelConsumed |-> fuelMetrics.TotalFuelConsumed,
          FuelTopped |-> fuelMetrics.TotalFuelTopped,
          FuelConsumedPercent |-> fuelMetrics.FuelConsumedPercent,
          FuelToppedPercent |-> fuelMetrics.FuelToppedPercent,
          GeneratorHours |-> powerMetrics.TotalGeneratorRuntime,
          ZesaHours |-> powerMetrics.TotalZesaRuntime,
          OfflineHours |-> powerMetrics.TotalOfflineTime]

\* int(x): truncation toward zero.
Trunc(x, unit) == IF x >= 0 THEN x \div unit ELSE -((-x) \div unit)

\* roundToDecimal (part_000:415-421): float64(int(val*multiplier+0.5)) / multiplier
roundToDecimal_HalfEven(val, decimals) ==
    LET unit == IF decimals = 1 THEN 100 ELSE 10
        whole == Trunc(val, unit)
        rest == val - whole * unit
    IN  IF 2 * rest > unit \/ (2 * rest = unit /\ whole % 2 = 1)
        THEN (whole + 1) * unit ELSE whole * unit

roundToDecimal(val, decimals) ==
    LET unit == IF decimals = 1 THEN 100 ELSE 10
    IN  Trunc(val + unit \div 2, unit) * unit

Swap_Overwrite(results, i, j) ==
    [results EXCEPT ![i] = results[j]]

\* results[i], results[j] = results[j], results[i]
Swap(results, i, j) ==
    [results EXCEPT ![i] = results[j], ![j] = results[i]]

RECURSIVE SortInner(_, _, _)
\* for j := i + 1; j < len(results); j++ { if results[j] > results[i] { swap } }
SortInner(results, i, j) ==
    IF j > Len(results) THEN results
    ELSE SortInner(IF results[j].FuelConsumed > results[i].FuelConsumed
                   THEN Swap(results, i, j) ELSE results, i, j + 1)

RECURSIVE SortOuter(_, _)
\* for i := 0; i < len(results)-1; i++
SortOuter(results, i) ==
    IF i > Len(results) - 1 THEN results
    ELSE SortOuter(SortInner(results, i, i + 1), i + 1)

\* sortResultsByFuelConsumed (part_000:404-412)
sortResultsByFuelConsumed(results) == SortOuter(results, 1)

ZeroSummary ==
    [TotalSites |-> 0, ProcessedSites |-> 0, ErrorSites |-> 0,
     TotalFuelConsumed |-> 0, TotalFuelTopped |-> 0, TotalGeneratorHours |-> 0,
     TotalZesaHours |-> 0, TotalOfflineHours |-> 0]

RECURSIVE SummaryWalk_CountAll(_, _, _)
SummaryWalk_CountAll(results, i, acc) ==
    IF i > Len(results) THEN acc
    ELSE LET result == results[i]
         IN  SummaryWalk_CountAll(results, i + 1,
               [acc EXCEPT
                  !.ProcessedSites = @ + 1,
                  !.TotalFuelConsumed = @ + result.FuelConsumed,
                  !.TotalFuelTopped = @ + result.FuelTopped,
                  !.TotalGeneratorHours = @ + result.GeneratorHours,
                  !.TotalZesaHours = @ + result.ZesaHours,
                  !.TotalOfflineHours = @ + result.OfflineHours])

RECURSIVE SummaryWalk(_, _, _)
\* for _, result := range results
SummaryWalk(results, i, acc) ==
    IF i > Len(results) THEN acc
    ELSE LET result == results[i]
         IN  SummaryWalk(results, i + 1,
               IF result.Status = "ERROR"
               THEN [acc EXCEPT !.ErrorSites = @ + 1]
               ELSE [acc EXCEPT
                       !.ProcessedSites = @ + 1,
                       !.TotalFuelConsumed = @ + result.FuelConsumed,
                       !.TotalFuelTopped = @ + result.FuelTopped,
                       !.TotalGeneratorHours = @ + result.GeneratorHours,
                       !.TotalZesaHours = @ + result.ZesaHours,
                       !.TotalOfflineHours = @ + result.OfflineHours])

\* calculateSummary (part_000:374-401)
calculateSummary(results, totalSites) ==
    LET acc == SummaryWalk(results, 1, ZeroSummary)
    IN  [TotalSites |-> totalSites,
         ProcessedSites |-> acc.ProcessedSites,
         ErrorSites |-> acc.ErrorSites,
         TotalFuelConsumed |-> roundToDecimal(acc.TotalFuelConsumed, 1),
         TotalFuelTopped |-> roundToDecimal(acc.TotalFuelTopped, 1),
         TotalGeneratorHours |-> roundToDecimal(acc.TotalGeneratorHours, 2),
         TotalZesaHours |-> roundToDecimal(acc.TotalZesaHours, 2),
         TotalOfflineHours |-> roundToDecimal(acc.TotalOfflineHours, 2)]

\* The results passed to calculateSummary directly: every status, with
\* metric values that round down, round up and need no rounding.
SummaryResults ==
    [SiteID : {1}, Status : {"CREATED", "UPDATED", "ERROR"}, Error : {""},
     FuelConsumed : {0, 40, 10000}, FuelTopped : {150},
     FuelConsumedPercent : {0}, FuelToppedPercent : {0},
     GeneratorHours : {5, 1000}, ZesaHours : {2000}, OfflineHours : {21000}]

\* h.calculateSummary(results, totalSites)
CallSummary ==
    /\ calc.op = "none"
    /\ \E results \in SeqsUpTo(SummaryResults, MaxResults), totalSites \in 0..MaxResults :
         calc' = [NoCall EXCEPT
                    !.op = "calculateSummary",
                    !.args = <<results, totalSites>>,
                    !.summary = calculateSummary(results, totalSites)]
    /\ UNCHANGED <<sensor_readings, handlerVars>>

(***************************************************************************)
(* The single-day handler GetCumulativeReadings (part_000:130-234) and the *)
(* goroutines it starts.                                                   *)
(*                                                                         *)
(* A request date is the text of the JSON field "date": its layout and the *)
(* calendar day it spells (0: no calendar day, such as 31/02).  The model  *)
(* takes the last of Dates as the day time.Now() falls on.                 *)
(***************************************************************************)
Today == NumDates

DateTexts ==
    [layout : {"DD/MM/YYYY", "YYYY-MM-DD"}, day : Dates]
    \cup {[layout |-> "YYYY-MM-DD", day |-> 0],
          [layout |-> "MM-DD-YYYY", day |-> 1],
          [layout |-> "", day |-> 0]}

\* A date text that is not a calendar day written DD/MM/YYYY or YYYY-MM-DD.
Malformed(dateStr) ==
    dateStr.layout # "" /\ ~(dateStr.layout \in {"DD/MM/YYYY", "YYYY-MM-DD"}
                               /\ dateStr.day \in Dates)

\* parseDate (part_000:237-250)
parseDate(dateStr) ==
    IF dateStr.layout = "" THEN [ok |-> TRUE, day |-> Today]
    ELSE IF dateStr.layout = "DD/MM/YYYY"
    THEN [ok |-> dateStr.day # 0, day |-> dateStr.day]
    ELSE [ok |-> dateStr.layout = "YYYY-MM-DD" /\ dateStr.day # 0,
          day |-> dateStr.day]

Min(a, b) == IF a < b THEN a ELSE b

\* processSitesInBatches:260-265: the batches sites[i:end], i += batchSize
NumBatches(sites) == (Len(sites) + batchSize - 1) \div batchSize

BatchSites_Overlapping(sites, b) ==
    SubSeq(sites, (b - 1) * batchSize + 1, Min(b * batchSize + 1, Len(sites)))

BatchSites(sites, b) ==
    SubSeq(sites, (b - 1) * batchSize + 1, Min(b * batchSize, Len(sites)))

NoBody == [sites |-> <<>>, summary |-> ZeroSummary]

\* A request: date is the day of a single-day request and the first day of a
\* range request, endDate the last day of a range request; calls are the
\* storage calls of the pre-flight steps that were made, each with its
\* outcome; malformed tells whether a date text the request carried spells
\* no calendar day in one of the two layouts (or the range start was absent).
IdleRequest ==
    [pc |-> "idle", malformed |-> FALSE, date |-> 0, endDate |-> 0,
     sites |-> <<>>, existing |-> {}, calls |-> <<>>, batch |-> <<>>,
     allResults |-> <<>>, http |-> 0, body |-> NoBody]

\* A batch goroutine: its sites, the index of the site processSingleSite is
\* working on, that call's two goroutines (err: "pending" until the
\* goroutine has returned, then "nil" or "error"), and batchResults.
NewBatch(sites) ==
    [sites |-> sites, i |-> 1,
     fuelErr |-> "pending", fuelMetrics |-> ZeroFuelMetrics,
     powerErr |-> "pending", powerMetrics |-> ZeroPowerMetrics,
     results |-> <<>>, merged |-> FALSE]

Answered(r, status, body) ==
    [r EXCEPT !.pc = "done", !.http = status, !.body = body]

Preflight_SitesBeforeDate(dateOk, sitesErr, numSites, prefetchErr) ==
    IF sitesErr THEN "sites"
    ELSE IF ~dateOk THEN "date"
    ELSE IF numSites = 0 THEN "empty"
    ELSE IF prefetchErr THEN "prefetch"
    ELSE "run"

Preflight_NoEmptyCheck(dateOk, sitesErr, numSites, prefetchErr) ==
    IF ~dateOk THEN "date"
    ELSE IF sitesErr THEN "sites"
    ELSE IF prefetchErr THEN "prefetch"
    ELSE "run"

Preflight_IgnorePrefetchError(dateOk, sitesErr, numSites, prefetchErr) ==
    IF ~dateOk THEN "date"
    ELSE IF sitesErr THEN "sites"
    ELSE IF numSites = 0 THEN "empty"
    ELSE "run"

\* GetCumulativeReadings:147-203: the step at which the pre-flight part of
\* the handler returns, or "run" when it goes on to processSitesInBatches.
Preflight(dateOk, sitesErr, numSites, prefetchErr) ==
    IF ~dateOk THEN "date"
    ELSE IF sitesErr THEN "sites"
    ELSE IF numSites = 0 THEN "empty"
    ELSE IF prefetchErr THEN "prefetch"
    ELSE "run"

\* The storage calls a handler has made when it stops at a step, with the
\* outcome each had.
PreflightCalls(step, sitesErr, prefetchErr) ==
    SubSeq(<<[call |-> "GetSitesForUser", failed |-> sitesErr],
             [call |-> "GetExistingCumulativeReadings", failed |-> prefetchErr]>>,
           1,
           CASE step = "date" -> 0
             [] step \in {"sites", "empty"} -> 1
             [] OTHER -> 2)

\* The HTTP status of the response the pre-flight part sends at a step.
PreflightStatus(step) ==
    CASE step = "date" -> 400
      [] step = "empty" -> 200
      [] OTHER -> 500

\* GetCumulativeReadings:130-212, up to the start of the batch goroutines.
\* The only shared state it reads is cumulative_readings, in the prefetch.
Begin(c) ==
    /\ budget[c] > 0
    /\ req[c].pc = "idle"
    /\ budget' = [budget EXCEPT ![c] = @ - 1]
    /\ \E dateStr \in DateTexts, sitesErr \in BOOLEAN, prefetchErr \in BOOLEAN :
         LET targetDate == parseDate(dateStr)
             sites == user_sites[c]
             step == Preflight(targetDate.ok, sitesErr, Len(sites), prefetchErr)
             existingReadings ==
                 GetExistingCumulativeReadings(cumulative_readings, targetDate.day, sites)
             r == [IdleRequest EXCEPT
                     !.malformed = Malformed(dateStr),
                     !.date = IF targetDate.ok THEN targetDate.day ELSE 0,
                     !.calls = PreflightCalls(step, sitesErr, prefetchErr)]
         IN  IF step # "run"
             THEN /\ req' = [req EXCEPT ![c] = Answered(r, PreflightStatus(step), NoBody)]
                  /\ events' = events \o <<[e |-> "begin", c |-> c], [e |-> "done", c |-> c]>>
             ELSE /\ req' = [req EXCEPT ![c] =
                               [r EXCEPT
                                  !.pc = "running", !.sites = sites,
                                  !.existing = {x.site_id : x \in existingReadings},
                                  !.batch = [b \in 1..NumBatches(sites) |->
                                               NewBatch(BatchSites(sites, b))]]]
                  /\ events' = Append(events, [e |-> "begin", c |-> c])
    /\ UNCHANGED <<sensor_readings, calc, dashboard, cumulative_readings, wallClock, user_sites>>

\* The site a batch goroutine is working on.
Working(c, b) ==
    /\ req[c].pc = "running"
    /\ b \in DOMAIN req[c].batch
    /\ req[c].batch[b].i <= Len(req[c].batch[b].sites)

CurrentSite(c, b) == req[c].batch[b].sites[req[c].batch[b].i]

\* processSingleSite:311-314: the goroutine of CalculateFuelChanges
CalcFuel(c, b) ==
    /\ Working(c, b)
    /\ req[c].batch[b].fuelErr = "pending"
    /\ \E failed \in BOOLEAN :
         req' = [req EXCEPT
                   ![c].batch[b].fuelErr = IF failed THEN "error" ELSE "nil",
                   ![c].batch[b].fuelMetrics =
                       IF failed THEN ZeroFuelMetrics
                       ELSE CalculateFuelChanges(
                                sensor_readings[DeviceOf(CurrentSite(c, b))][req[c].date])]
    /\ UNCHANGED <<sensor_readings, calc, dashboard, cumulative_readings, wallClock,
                   user_sites, budget, events>>

\* processSingleSite:316-319: the goroutine of CalculatePowerRuntimes
CalcPower(c, b) ==
    /\ Working(c, b)
    /\ req[c].batch[b].powerErr = "pending"
    /\ \E failed \in BOOLEAN :
         req' = [req EXCEPT
                   ![c].batch[b].powerErr = IF failed THEN "error" ELSE "nil",
                   ![c].batch[b].powerMetrics =
                       IF failed THEN ZeroPowerMetrics
                       ELSE CalculatePowerRuntimes(
                                sensor_readings[DeviceOf(CurrentSite(c, b))][req[c].date])]
    /\ UNCHANGED <<sensor_readings, calc, dashboard, cumulative_readings, wallClock,
                   user_sites, budget, events>>

NextIndex_StopOnError(batch, result) ==
    IF result.Status = "ERROR" THEN Len(batch.sites) + 1 ELSE batch.i + 1

\* processBatch:291-294: for _, site := range sites
NextIndex(batch, result) == batch.i + 1

BothReturned_FuelOnly(batch) == batch.fuelErr # "pending"

\* processSingleSite:308-321: wg.Add(2), one wg.Done() deferred in each of
\* the two goroutines, and wg.Wait(), which returns when both have returned.
BothReturned(batch) == batch.fuelErr # "pending" /\ batch.powerErr # "pending"

\* processSingleSite:321-370, from wg.Wait() to the return, and the append
\* of processBatch:293.
SaveSite(c, b) ==
    /\ Working(c, b)
    /\ BothReturned(req[c].batch[b])
    /\ LET batch == req[c].batch[b]
           site == CurrentSite(c, b)
           fuelErr == batch.fuelErr = "error"
           powerErr == batch.powerErr = "error"
           row == NewRow(site, DeviceOf(site), req[c].date, batch.fuelMetrics,
                         batch.powerMetrics, wallClock)
           done(saveErr) ==
               LET result == SiteResult(site, site \in req[c].existing, fuelErr,
                                        powerErr, batch.fuelMetrics,
                                        batch.powerMetrics, saveErr)
               IN  req' = [req EXCEPT ![c].batch[b] =
                             [batch EXCEPT
                                !.results = Append(@, result),
                                !.i = NextIndex(batch, result),
                                !.fuelErr = "pending", !.powerErr = "pending",
                                !.fuelMetrics = ZeroFuelMetrics,
                                !.powerMetrics = ZeroPowerMetrics]]
       IN  IF ~IssuesUpsert(fuelErr, powerErr)
           THEN /\ done(FALSE)
                /\ UNCHANGED <<cumulative_readings, wallClock>>
           ELSE /\ wallClock' = wallClock + 1
                /\ \E saveErr \in BOOLEAN :
                     /\ done(saveErr)
                     /\ cumulative_readings' =
                            IF saveErr THEN cumulative_readings
                            ELSE Upsert(cumulative_readings, row)
    /\ UNCHANGED <<sensor_readings, calc, dashboard, user_sites, budget, events>>

\* processSitesInBatches:273-275: the append under resultMutex
MergeBatch(c, b) ==
    /\ req[c].pc = "running"
    /\ b \in DOMAIN req[c].batch
    /\ req[c].batch[b].i > Len(req[c].batch[b].sites)
    /\ ~req[c].batch[b].merged
    /\ req' = [req EXCEPT
                 ![c].allResults = @ \o req[c].batch[b].results,
                 ![c].batch[b].merged = TRUE]
    /\ UNCHANGED <<sensor_readings, calc, dashboard, cumulative_readings, wallClock,
                   user_sites, budget, events>>

Joined_AnyBatch(r) == \E b \in DOMAIN r.batch : r.batch[b].merged

\* processSitesInBatches:279: wg.Wait() returns when every batch goroutine
\* has run its deferred wg.Done(), after its append under the mutex.
Joined(r) == \A b \in DOMAIN r.batch : r.batch[b].merged

\* processSitesInBatches:279-284 after wg.Wait(), GetCumulativeReadings:215-233
Respond(c) ==
    /\ req[c].pc = "running"
    /\ Joined(req[c])
    /\ LET results == sortResultsByFuelConsumed(req[c].allResults)
           summary == calculateSummary(results, Len(req[c].sites))
       IN  req' = [req EXCEPT ![c] =
                     Answered(req[c], 200, [sites |-> results, summary |-> summary])]
    /\ events' = Append(events, [e |-> "done", c |-> c])
    /\ UNCHANGED <<sensor_readings, calc, dashboard, cumulative_readings, wallClock,
                   user_sites, budget>>

\* The devices keep reporting: one more volume sample of device 1 on day 1.
IngestTargets == {<<1, 1>>}

IngestedRow == [sensor_name |-> "fuel_sensor_volume", value |-> "0"]

Ingested == Cardinality({i \in 1..Len(events) : events[i].e = "ingest"})

Ingest(d, date) ==
    /\ Ingested < MaxIngest
    /\ \E c \in Clients : budget[c] > 0 \/ req[c].pc = "running"
    /\ sensor_readings' =
           [sensor_readings EXCEPT ![d][date].fuel = Append(@, IngestedRow)]
    /\ events' = Append(events, [e |-> "ingest", c |-> 0])
    /\ UNCHANGED <<calc, dashboard, cumulative_readings, wallClock, user_sites, budget, req>>

(***************************************************************************)
(* The range handler GetCumulativeReadingsByDateRange (part_000:424-520):  *)
(* its per-site aggregate, its sort and its summary.                       *)
(***************************************************************************)
\* const batchSize = 20 of getCumulativeReadingsForRange, scaled to the sites
\* of the model as the batchSize of the single-day handler is.
rangeBatchSize == 2

\* time.Parse of the text of a calendar day: midnight UTC of that day, as
\* hours since the midnight of day 0.
DayStart(day) == day * HoursPerDay

calculateDaysDifference_Exclusive(startDate, endDate) ==
    IF startDate = endDate THEN 1
    ELSE Trunc(endDate - startDate, HoursPerDay)

\* calculateDaysDifference (part_000:667-673): int(diff.Hours()/24) + 1
calculateDaysDifference(startDate, endDate) ==
    IF startDate = endDate THEN 1
    ELSE Trunc(endDate - startDate, HoursPerDay) + 1

RECURSIVE SumColumn(_, _)
\* SUM(CAST(<column> AS DECIMAL)) over the rows the WHERE clause keeps.
SumColumn(rows, column) ==
    IF rows = {} THEN 0
    ELSE LET r == CHOOSE x \in rows : TRUE
         IN  r[column] + SumColumn(rows \ {r}, column)

\* MIN(date), MAX(date)
MinDate(rows) == CHOOSE d \in {r.date : r \in rows} : \A r \in rows : d <= r.date
MaxDate(rows) == CHOOSE d \in {r.date : r \in rows} : \A r \in rows : d >= r.date

\* WHERE site_id = $1 AND date >= $2 AND date <= $3
RangeRows(table, siteID, startDate, endDate) ==
    {r \in table : r.site_id = siteID /\ r.date >= startDate /\ r.date <= endDate}

NoRangeResult == [ok |-> FALSE]

RangeResultOf_ZeroRow(queryErr, site, rows) ==
    IF queryErr THEN NoRangeResult
    ELSE [ok |-> TRUE,
          result |->
            [SiteID |-> site,
             TotalFuelConsumed |-> roundToDecimal(SumColumn(rows, "total_fuel_consumed"), 1),
             TotalFuelTopped |-> roundToDecimal(SumColumn(rows, "total_fuel_topped_up"), 1),
             TotalGeneratorHours |-> roundToDecimal(SumColumn(rows, "total_generator_runtime"), 2),
             TotalZesaHours |-> roundToDecimal(SumColumn(rows, "total_zesa_runtime"), 2),
             TotalOfflineHours |-> roundToDecimal(SumColumn(rows, "total_offline_time"), 2),
             ReadingDays |-> Cardinality(rows),
             Start |-> IF rows = {} THEN 0 ELSE MinDate(rows),
             End |-> IF rows = {} THEN 0 ELSE MaxDate(rows)]]

RangeResultOf_ErrorIgnored(queryErr, site, rows) ==
    IF Cardinality(rows) = 0 THEN NoRangeResult
    ELSE RangeResultOf_ZeroRow(FALSE, site, rows)

\* getSiteRangeData:605-629: nil when the query failed (over no rows the
\* sums are NULL and the Scan fails) or when readingDays is 0.
RangeResultOf(queryErr, site, rows) ==
    IF queryErr \/ Cardinality(rows) = 0 THEN NoRangeResult
    ELSE [ok |-> TRUE,
          result |->
            [SiteID |-> site,
             TotalFuelConsumed |-> roundToDecimal(SumColumn(rows, "total_fuel_consumed"), 1),
             TotalFuelTopped |-> roundToDecimal(SumColumn(rows, "total_fuel_topped_up"), 1),
             TotalGeneratorHours |-> roundToDecimal(SumColumn(rows, "total_generator_runtime"), 2),
             TotalZesaHours |-> roundToDecimal(SumColumn(rows, "total_zesa_runtime"), 2),
             TotalOfflineHours |-> roundToDecimal(SumColumn(rows, "total_offline_time"), 2),
             ReadingDays |-> Cardinality(rows),
             Start |-> MinDate(rows),
             End |-> MaxDate(rows)]]

\* getSiteRangeData (part_000:573-630)
getSiteRangeData(table, site, startDate, endDate, queryErr) ==
    RangeResultOf(queryErr, site, RangeRows(table, site, startDate, endDate))

RECURSIVE RangeSortInner(_, _, _)
\* for j := i + 1; j < len(results); j++
RangeSortInner(results, i, j) ==
    IF j > Len(results) THEN results
    ELSE RangeSortInner(IF results[j].TotalFuelConsumed > results[i].TotalFuelConsumed
                        THEN Swap(results, i, j) ELSE results, i, j + 1)

RECURSIVE RangeSortOuter(_, _)
\* for i := 0; i < len(results)-1; i++
RangeSortOuter(results, i) ==
    IF i > Len(results) - 1 THEN results
    ELSE RangeSortOuter(RangeSortInner(results, i, i + 1), i + 1)

sortRangeResultsByFuelConsumed_Unsorted(results) == results

\* sortRangeResultsByFuelConsumed (part_000:676-684)
sortRangeResultsByFuelConsumed(results) == RangeSortOuter(results, 1)

RECURSIVE RangeSummaryWalk(_, _, _)
\* for _, result := range results
RangeSummaryWalk(results, i, acc) ==
    IF i > Len(results) THEN acc
    ELSE RangeSummaryWalk(results, i + 1,
           [acc EXCEPT
              !.TotalFuelConsumed = @ + results[i].TotalFuelConsumed,
              !.TotalFuelTopped = @ + results[i].TotalFuelTopped,
              !.TotalGeneratorHours = @ + results[i].TotalGeneratorHours,
              !.TotalZesaHours = @ + results[i].TotalZesaHours,
              !.TotalOfflineHours = @ + results[i].TotalOfflineHours])

\* roundToDecimal(totalFuelConsumed / float64(len(results)), 1), the
\* quotient taken exactly: int(total / n * 10 + 0.5) tenths.
AverageFuelPerSite(totalFuelConsumed, n) ==
    IF n > 0 THEN Trunc(20 * totalFuelConsumed + 1000 * n, 2000 * n) * 100 ELSE 0

\* The summary of a range response over no sites (part_000:485-496).
EmptyRangeSummary(startDate, endDate) ==
    [Start |-> startDate, End |-> endDate, IsRange |-> FALSE, TotalSites |-> 0,
     TotalFuelConsumed |-> 0, TotalFuelTopped |-> 0, TotalGeneratorHours |-> 0,
     TotalZesaHours |-> 0, TotalOfflineHours |-> 0, AverageFuelPerSite |-> 0,
     DaysIncluded |-> calculateDaysDifference(DayStart(startDate), DayStart(endDate))]

\* calculateRangeSummary (part_000:633-664)
calculateRangeSummary(results, startDate, endDate) ==
    LET acc == RangeSummaryWalk(results, 1, EmptyRangeSummary(startDate, endDate))
    IN  [acc EXCEPT
           !.IsRange = startDate # endDate,
           !.TotalSites = Len(results),
           !.TotalFuelConsumed = roundToDecimal(acc.TotalFuelConsumed, 1),
           !.TotalFuelTopped = roundToDecimal(acc.TotalFuelTopped, 1),
           !.TotalGeneratorHours = roundToDecimal(acc.TotalGeneratorHours, 2),
           !.TotalZesaHours = roundToDecimal(acc.TotalZesaHours, 2),
           !.TotalOfflineHours = roundToDecimal(acc.TotalOfflineHours, 2),
           !.AverageFuelPerSite = AverageFuelPerSite(acc.TotalFuelConsumed, Len(results))]

\* GetCumulativeReadingsByDateRange:434-500: the step at which the pre-flight
\* part of the range handler returns, or "run" when it goes on to
\* getCumulativeReadingsForRange.  An absent query parameter is the text "".
RangePreflight(startDateStr, endDateStr, sitesErr, numSites) ==
    IF startDateStr.layout = "" THEN "start"
    ELSE IF ~parseDate(startDateStr).ok THEN "date"
    ELSE IF endDateStr.layout # "" /\ ~parseDate(endDateStr).ok THEN "date"
    ELSE IF sitesErr THEN "sites"
    ELSE IF numSites = 0 THEN "empty"
    ELSE "run"

RangePreflightCalls(step, sitesErr) ==
    IF step \in {"start", "date"} THEN <<>>
    ELSE <<[call |-> "GetSitesForUser", failed |-> sitesErr]>>

RangePreflightStatus(step) ==
    CASE step \in {"start", "date"} -> 400
      [] step = "empty" -> 200
      [] OTHER -> 500

\* getCumulativeReadingsForRange:531-536: the batches sites[i:end]
NumRangeBatches(sites) == (Len(sites) + rangeBatchSize - 1) \div rangeBatchSize

RangeBatchSites_Overlapping(sites, b) ==
    SubSeq(sites, (b - 1) * rangeBatchSize + 1,
           Min(b * rangeBatchSize + 1, Len(sites)))

RangeBatchSites(sites, b) ==
    SubSeq(sites, (b - 1) * rangeBatchSize + 1, Min(b * rangeBatchSize, Len(sites)))

\* A batch goroutine of the range handler: its sites, the index of the site
\* getSiteRangeData is called for, the sites whose query error it logged,
\* and its results.
NewRangeBatch(sites) ==
    [sites |-> sites, i |-> 1, logged |-> {}, results |-> <<>>, merged |-> FALSE]

\* GetCumulativeReadingsByDateRange:424-505, up to the start of the batch
\* goroutines.  It reads no shared state.
BeginRange(c) ==
    /\ budget[c] > 0
    /\ req[c].pc = "idle"
    /\ budget' = [budget EXCEPT ![c] = @ - 1]
    /\ \E startDateStr \in DateTexts, endDateStr \in DateTexts, sitesErr \in BOOLEAN :
         LET sites == user_sites[c]
             step == RangePreflight(startDateStr, endDateStr, sitesErr, Len(sites))
             startDate == parseDate(startDateStr).day
             endDate == IF endDateStr.layout # "" THEN parseDate(endDateStr).day
                        ELSE startDate
             r == [IdleRequest EXCEPT
                     !.malformed = \/ startDateStr.layout = ""
                                   \/ Malformed(startDateStr)
                                   \/ Malformed(endDateStr),
                     !.date = IF step \in {"start", "date"} THEN 0 ELSE startDate,
                     !.endDate = IF step \in {"start", "date"} THEN 0 ELSE endDate,
                     !.calls = RangePreflightCalls(step, sitesErr)]
         IN  IF step # "run"
             THEN /\ req' = [req EXCEPT ![c] =
                               Answered(r, RangePreflightStatus(step),
                                        IF step = "empty"
                                        THEN [sites |-> <<>>,
                                              summary |-> EmptyRangeSummary(startDate, endDate)]
                                        ELSE NoBody)]
                  /\ events' = events \o <<[e |-> "begin", c |-> c], [e |-> "done", c |-> c]>>
             ELSE /\ req' = [req EXCEPT ![c] =
                               [r EXCEPT
                                  !.pc = "ranging", !.sites = sites,
                                  !.batch = [b \in 1..NumRangeBatches(sites) |->
                                               NewRangeBatch(RangeBatchSites(sites, b))]]]
                  /\ events' = Append(events, [e |-> "begin", c |-> c])
    /\ UNCHANGED <<sensor_readings, calc, dashboard, cumulative_readings, wallClock, user_sites>>

\* processSiteRangeBatch:562-567: getSiteRangeData for the next site of the
\* batch, its result appended when it is not nil.
RangeSite(c, b) ==
    /\ req[c].pc = "ranging"
    /\ b \in DOMAIN req[c].batch
    /\ req[c].batch[b].i <= Len(req[c].batch[b].sites)
    /\ \E queryErr \in BOOLEAN :
         LET batch == req[c].batch[b]
             site == batch.sites[batch.i]
             data == getSiteRangeData(cumulative_readings, site, req[c].date,
                                      req[c].endDate, queryErr)
         IN  req' = [req EXCEPT ![c].batch[b] =
                       [batch EXCEPT
                          !.i = @ + 1,
                          !.logged = IF queryErr THEN @ \cup {site} ELSE @,
                          !.results = IF data.ok THEN Append(@, data.result) ELSE @]]
    /\ UNCHANGED <<sensor_readings, calc, dashboard, cumulative_readings, wallClock,
                   user_sites, budget, events>>

\* getCumulativeReadingsForRange:542-546: the append under resultMutex
MergeRangeBatch(c, b) ==
    /\ req[c].pc = "ranging"
    /\ b \in DOMAIN req[c].batch
    /\ req[c].batch[b].i > Len(req[c].batch[b].sites)
    /\ ~req[c].batch[b].merged
    /\ req' = [req EXCEPT
                 ![c].allResults = @ \o req[c].batch[b].results,
                 ![c].batch[b].merged = TRUE]
    /\ UNCHANGED <<sensor_readings, calc, dashboard, cumulative_readings, wallClock,
                   user_sites, budget, events>>

\* getCumulativeReadingsForRange:550-555 after wg.Wait(),
\* GetCumulativeReadingsByDateRange:507-519
RespondRange(c) ==
    /\ req[c].pc = "ranging"
    /\ Joined(req[c])
    /\ LET results == sortRangeResultsByFuelConsumed(req[c].allResults)
           summary == calculateRangeSummary(results, req[c].date, req[c].endDate)
       IN  req' = [req EXCEPT ![c] =
                     Answered(req[c], 200, [sites |-> results, summary |-> summary])]
    /\ events' = Append(events, [e |-> "done", c |-> c])
    /\ UNCHANGED <<sensor_readings, calc, dashboard, cumulative_readings, wallClock,
                   user_sites, budget>>

(***************************************************************************)
(* Initial states and specifications.                                      *)
(***************************************************************************)
NoDays == [d \in Sites |-> [date \in Dates |-> EmptyDay]]

\* Device-days for the direct calls: every generator stream with every zesa
\* stream, and every fuel stream under a generator stream of at most one row,
\* in the day or after it.
RuntimeDays ==
    [generator_state : StateStreams(MaxStateSamples),
     zesa_state : ZesaStreams(MaxZesaSamples),
     fuel : {<<>>}]

FuelDays ==
    [generator_state : {s \in StateStreams(1) : \A i \in 1..Len(s) : s[i].time \in {0, 24}},
     zesa_state : {<<>>},
     fuel : SeqsUpTo(FuelRows, MaxFuelRows)]

(***************************************************************************)
(* The worker pools of the dashboard (dashboard.go:130-237): a producer    *)
(* goroutine sends the sites (daily closing) or their device ids (real     *)
(* time) on a buffered channel and closes it, maxWorkers worker goroutines *)
(* range over it and send the sites with a reading on a second buffered    *)
(* channel, a closer goroutine closes that channel after wg.Wait(), and    *)
(* the caller collects from it until it is closed.                         *)
(***************************************************************************)
\* const maxWorkers = 15 (real time) and 12 (daily closing), scaled to the
\* site lists of the model: fewer workers than sites, more workers than
\* sites and as many all occur.
realTimeWorkers == 3
dailyClosingWorkers == 2

maxWorkers(mode) == IF mode = "realtime" THEN realTimeWorkers ELSE dailyClosingWorkers

\* What the reading query of a site returns: nil (no row, or the query
\* failed), a reading whose FuelLevel is empty, or a reading with a level.
ReadingKinds == {"nil", "empty", "level"}

NoPool ==
    [mode |-> "none", sites |-> <<>>, readings |-> <<>>, sent |-> 0,
     workChan |-> <<>>, workClosed |-> FALSE, worker |-> <<>>,
     resultChan |-> <<>>, resultClosed |-> FALSE,
     sitesWithReadings |-> <<>>, returned |-> FALSE, panicked |-> FALSE]

\* The state after the make(chan ..., len(sites)) calls and the go
\* statements: every goroutine at its first statement.
NewPool(mode, sites, readings) ==
    [NoPool EXCEPT
       !.mode = mode, !.sites = sites, !.readings = readings,
       !.worker = [w \in 1..maxWorkers(mode) |-> [pc |-> "range", item |-> 0]]]

PoolRunning == dashboard.mode # "none" /\ ~dashboard.panicked

\* cap(deviceChan) = cap(siteChan) = cap(resultChan) = len(sites)
ChanCap == Len(dashboard.sites)

PoolFrame ==
    UNCHANGED <<sensor_readings, calc, cumulative_readings, wallClock, user_sites,
                budget, req, events>>

\* for _, site := range sites { siteChan <- site }: the device id in the
\* real-time pool, the site in the daily-closing pool.
ProducerSend ==
    /\ PoolRunning
    /\ dashboard.sent < Len(dashboard.sites)
    /\ ~dashboard.workClosed
    /\ Len(dashboard.workChan) < ChanCap
    /\ LET site == dashboard.sites[dashboard.sent + 1]
           item == IF dashboard.mode = "realtime" THEN DeviceOf(site) ELSE site
       IN  dashboard' = [dashboard EXCEPT
                           !.sent = @ + 1,
                           !.workChan = Append(@, item)]
    /\ PoolFrame

\* defer close(siteChan), when the loop of the producer has ended
ProducerClose ==
    /\ PoolRunning
    /\ dashboard.sent = Len(dashboard.sites)
    /\ ~dashboard.workClosed
    /\ dashboard' = [dashboard EXCEPT !.workClosed = TRUE]
    /\ PoolFrame

\* for site := range siteChan: the next value of the channel
WorkerReceive(w) ==
    /\ PoolRunning
    /\ w \in DOMAIN dashboard.worker
    /\ dashboard.worker[w].pc = "range"
    /\ dashboard.workChan # <<>>
    /\ dashboard' = [dashboard EXCEPT
                       !.workChan = Tail(@),
                       !.worker[w] = [pc |-> "reading", item |-> Head(dashboard.workChan)]]
    /\ PoolFrame

\* The range loop ends on the closed and drained channel; defer wg.Done().
WorkerExit(w) ==
    /\ PoolRunning
    /\ w \in DOMAIN dashboard.worker
    /\ dashboard.worker[w].pc = "range"
    /\ dashboard.workChan = <<>>
    /\ dashboard.workClosed
    /\ dashboard' = [dashboard EXCEPT !.worker[w].pc = "done"]
    /\ PoolFrame

\* for _, s := range sites { if s.DeviceID == deviceID { site = s; break } }
\* The first site with the device id, 0 for nil.
FindSite(sites, deviceID) ==
    LET found == {i \in 1..Len(sites) : DeviceOf(sites[i]) = deviceID}
    IN  IF found = {} THEN 0
        ELSE sites[CHOOSE i \in found : \A j \in found : i <= j]

\* The site a worker sends for the value it received, 0 when it sends
\* nothing: reading != nil && reading.FuelLevel != "", and in the real-time
\* pool site != nil.
SiteToSend(mode, sites, readings, item) ==
    IF mode = "realtime"
    THEN IF readings[item] = "level" THEN FindSite(sites, item) ELSE 0
    ELSE IF readings[item] = "level" THEN item ELSE 0

\* The body of the range loop of a worker: the reading query and
\* resultChan <- siteWithReading.  A send on a closed channel panics; a
\* send on a full channel blocks.
WorkerProcess(w) ==
    /\ PoolRunning
    /\ w \in DOMAIN dashboard.worker
    /\ dashboard.worker[w].pc = "reading"
    /\ LET site == SiteToSend(dashboard.mode, dashboard.sites, dashboard.readings,
                              dashboard.worker[w].item)
           back == [pc |-> "range", item |-> 0]
       IN  IF site = 0
           THEN dashboard' = [dashboard EXCEPT !.worker[w] = back]
           ELSE IF dashboard.resultClosed
           THEN dashboard' = [dashboard EXCEPT !.panicked = TRUE]
           ELSE /\ Len(dashboard.resultChan) < ChanCap
                /\ dashboard' = [dashboard EXCEPT
                                   !.worker[w] = back,
                                   !.resultChan = Append(@, [SiteID |-> site])]
    /\ PoolFrame

AllWorkersDone_AnyWorker(pool) ==
    \E w \in DOMAIN pool.worker : pool.worker[w].pc = "done"

\* wg.Wait() of the closer: every worker has called wg.Done().
AllWorkersDone(pool) ==
    \A w \in DOMAIN pool.worker : pool.worker[w].pc = "done"

\* go func() { wg.Wait(); close(resultChan) }()
CloserClose ==
    /\ PoolRunning
    /\ AllWorkersDone(dashboard)
    /\ ~dashboard.resultClosed
    /\ dashboard' = [dashboard EXCEPT !.resultClosed = TRUE]
    /\ PoolFrame

\* for siteWithReading := range resultChan { append }
CollectorReceive ==
    /\ PoolRunning
    /\ ~dashboard.returned
    /\ dashboard.resultChan # <<>>
    /\ dashboard' = [dashboard EXCEPT
                       !.resultChan = Tail(@),
                       !.sitesWithReadings = Append(@, Head(dashboard.resultChan))]
    /\ PoolFrame

\* The range loop of the caller ends on the closed and drained channel,
\* and the function returns sitesWithReadings.
CollectorReturn ==
    /\ PoolRunning
    /\ ~dashboard.returned
    /\ dashboard.resultChan = <<>>
    /\ dashboard.resultClosed
    /\ dashboard' = [dashboard EXCEPT !.returned = TRUE]
    /\ PoolFrame

HandlersIdle ==
    /\ dashboard = NoPool
    /\ cumulative_readings = {}
    /\ wallClock = 1
    /\ user_sites = [c \in AllClients |-> <<>>]
    /\ budget = [c \in AllClients |-> 0]
    /\ req = [c \in AllClients |-> IdleRequest]
    /\ events = <<>>

InitCalc ==
    /\ \E day \in RuntimeDays \cup FuelDays :
         sensor_readings = [NoDays EXCEPT ![1][1] = day]
    /\ calc = NoCall
    /\ HandlersIdle

NextCalc ==
    \/ \E sensorName \in {"generator_state", "zesa_state"} : CallStateRuntime(sensorName)
    \/ CallGeneratorActivity
    \/ CallFuelChanges
    \/ CallPowerRuntimes

SpecCalc == InitCalc /\ [][NextCalc]_vars

\* h.calculateDaysDifference(startDate, endDate) on the midnights of two
\* calendar days, as the range handler parses them.
CallDaysDifference ==
    /\ calc.op = "none"
    /\ \E startDay \in 1..MaxWindowDay, endDay \in 1..MaxWindowDay :
         calc' = [NoCall EXCEPT
                    !.op = "calculateDaysDifference",
                    !.args = <<startDay, endDay>>,
                    !.summary = calculateDaysDifference(DayStart(startDay),
                                                        DayStart(endDay))]
    /\ UNCHANGED <<sensor_readings, handlerVars>>

\* The values roundToDecimal is called on directly, in thousandths: values
\* half-way between two results at one and at two decimals, and values on
\* either side of them.
RoundInputs == {0, 4, 5, 6, 15, 25, 49, 50, 51, 150, 250, 994, 995, 10050}

\* h.roundToDecimal(val, decimals)
CallRoundToDecimal ==
    /\ calc.op = "none"
    /\ \E val \in RoundInputs, decimals \in {1, 2} :
         calc' = [NoCall EXCEPT
                    !.op = "roundToDecimal",
                    !.args = <<val, decimals>>,
                    !.summary = roundToDecimal(val, decimals)]
    /\ UNCHANGED <<sensor_readings, handlerVars>>

\* The per-site results calculateRangeSummary is called on directly: each
\* as getSiteRangeData rounds it, fuel to tenths and hours to hundredths.
RangeSummaryResults ==
    [SiteID : {1}, TotalFuelConsumed : {0, 200, 300, 10000}, TotalFuelTopped : {500},
     TotalGeneratorHours : {1250}, TotalZesaHours : {2000},
     TotalOfflineHours : {20750}, ReadingDays : {1}, Start : {1}, End : {1}]

\* h.calculateRangeSummary(results, startDate, endDate, startDateTime, endDateTime)
CallRangeSummary ==
    /\ calc.op = "none"
    /\ \E results \in SeqsUpTo(RangeSummaryResults, MaxResults) :
         calc' = [NoCall EXCEPT
                    !.op = "calculateRangeSummary",
                    !.args = <<results>>,
                    !.summary = calculateRangeSummary(results, 1, 1)]
    /\ UNCHANGED <<sensor_readings, handlerVars>>

\* calculateSummary, calculateRangeSummary, roundToDecimal and
\* calculateDaysDifference called directly.
InitSummary ==
    /\ sensor_readings = NoDays
    /\ calc = NoCall
    /\ HandlersIdle

NextSummary ==
    \/ CallSummary
    \/ CallDaysDifference
    \/ CallRoundToDecimal
    \/ CallRangeSummary

SpecSummary == InitSummary /\ [][NextSummary]_vars

\* The rows the devices have reported when the requests start.
BaseDay(d) ==
    IF d = 1
    THEN [generator_state |-> <<[time |-> 8, value |-> "1"], [time |-> 9, value |-> "0"]>>,
          zesa_state |-> <<[time |-> 0, value |-> "1"]>>,
          fuel |-> <<[sensor_name |-> "fuel_sensor_volume", value |-> "50"],
                     [sensor_name |-> "fuel_sensor_volume", value |-> "49"]>>]
    ELSE IF d = 2
    THEN [generator_state |-> <<[time |-> 0, value |-> "1.0"]>>,
          zesa_state |-> <<>>,
          fuel |-> <<[sensor_name |-> "fuel_sensor_volume", value |-> "50"],
                     [sensor_name |-> "fuel_sensor_volume", value |-> "49.996"]>>]
    ELSE EmptyDay

BaseDays == [d \in Sites |-> [date \in Dates |-> IF date = 1 THEN BaseDay(d) ELSE EmptyDay]]

\* The record an earlier run for site 1 and day 1 left, computed before the
\* device had reported anything that day.
EarlierRow == NewRow(1, DeviceOf(1), 1, ZeroFuelMetrics, CalculatePowerRuntimes(EmptyDay), 0)

AllSites == [i \in Sites |-> i]

\* One client sends one single-day request over all the sites, or over none.
Init ==
    /\ dashboard = NoPool
    /\ sensor_readings = BaseDays
    /\ calc = NoCall
    /\ cumulative_readings \in {{}, {EarlierRow}}
    /\ wallClock = 1
    /\ user_sites \in {[c \in AllClients |-> IF c = 1 THEN sites ELSE <<>>] :
                          sites \in {AllSites, <<>>}}
    /\ budget = [c \in AllClients |-> IF c = 1 THEN 1 ELSE 0]
    /\ req = [c \in AllClients |-> IdleRequest]
    /\ events = <<>>

Next ==
    \/ \E c \in Clients : Begin(c)
    \/ \E c \in Clients, b \in 1..NumSites : CalcFuel(c, b)
    \/ \E c \in Clients, b \in 1..NumSites : CalcPower(c, b)
    \/ \E c \in Clients, b \in 1..NumSites : SaveSite(c, b)
    \/ \E c \in Clients, b \in 1..NumSites : MergeBatch(c, b)
    \/ \E c \in Clients : Respond(c)
    \/ \E target \in IngestTargets : Ingest(target[1], target[2])

Spec == Init /\ [][Next]_vars

\* Two clients send one single-day request each, over site 1 or sites 1 and
\* 2, with nothing stored yet.
InitTwice ==
    /\ dashboard = NoPool
    /\ sensor_readings = BaseDays
    /\ calc = NoCall
    /\ cumulative_readings = {}
    /\ wallClock = 1
    /\ user_sites = [c \in AllClients |->
                       IF c = 1 THEN <<1, 2>> ELSE IF c = 2 THEN <<1>> ELSE <<>>]
    /\ budget = [c \in AllClients |-> IF c \in Clients THEN 1 ELSE 0]
    /\ req = [c \in AllClients |-> IdleRequest]
    /\ events = <<>>

SpecTwice == InitTwice /\ [][Next]_vars

\* The records earlier runs left: site 1 on days 1 and 2, site 2 on day 1,
\* site 3 on day 2, with 10.04, 30 and 10 litres consumed a day.
RangeKeys == {<<1, 1>>, <<1, 2>>, <<2, 1>>, <<3, 2>>}

RangeRow(site, date) ==
    NewRow(site, DeviceOf(site), date,
           [ZeroFuelMetrics EXCEPT
              !.TotalFuelConsumed = CASE site = 1 -> 10040
                                      [] site = 2 -> 30000
                                      [] OTHER -> 10000],
           CalculatePowerRuntimes(BaseDay(site)), 0)

RangeStores == {{RangeRow(k[1], k[2]) : k \in keys} : keys \in SUBSET RangeKeys}

\* Either client 1 sends one single-day request over all the sites with
\* nothing stored, or client 3 sends one range request, over all the sites
\* or over none, with the records of earlier runs stored.
InitRange ==
    /\ dashboard = NoPool
    /\ sensor_readings = BaseDays
    /\ calc = NoCall
    /\ wallClock = 1
    /\ req = [c \in AllClients |-> IdleRequest]
    /\ events = <<>>
    /\ \/ /\ cumulative_readings = {}
          /\ user_sites = [c \in AllClients |-> IF c = 1 THEN AllSites ELSE <<>>]
          /\ budget = [c \in AllClients |-> IF c = 1 THEN 1 ELSE 0]
       \/ /\ cumulative_readings \in RangeStores
          /\ user_sites \in {[c \in AllClients |-> IF c = 3 THEN sites ELSE <<>>] :
                                sites \in {AllSites, <<>>}}
          /\ budget = [c \in AllClients |-> IF c = 3 THEN 1 ELSE 0]

NextRange ==
    \/ Next
    \/ \E c \in RangeClients : BeginRange(c)
    \/ \E c \in RangeClients, b \in 1..NumSites : RangeSite(c, b)
    \/ \E c \in RangeClients, b \in 1..NumSites : MergeRangeBatch(c, b)
    \/ \E c \in RangeClients : RespondRange(c)

SpecRange == InitRange /\ [][NextRange]_vars

\* One call of getAggressiveParallelRealTimeReadings or of
\* getAggressiveParallelDailyClosingReadings, on one to NumSites sites (the
\* handler calls neither with no site) and any readings in the store.
InitDashboard ==
    /\ sensor_readings = NoDays
    /\ calc = NoCall
    /\ cumulative_readings = {}
    /\ wallClock = 1
    /\ user_sites = [c \in AllClients |-> <<>>]
    /\ budget = [c \in AllClients |-> 0]
    /\ req = [c \in AllClients |-> IdleRequest]
    /\ events = <<>>
    /\ \E mode \in {"realtime", "daily"}, n \in 1..NumSites,
          readings \in [Sites -> ReadingKinds] :
         dashboard = NewPool(mode, SubSeq(AllSites, 1, n), readings)

NextDashboard ==
    \/ ProducerSend
    \/ ProducerClose
    \/ \E w \in 1..realTimeWorkers : WorkerReceive(w)
    \/ \E w \in 1..realTimeWorkers : WorkerProcess(w)
    \/ \E w \in 1..realTimeWorkers : WorkerExit(w)
    \/ CloserClose
    \/ CollectorReceive
    \/ CollectorReturn

\* The Go scheduler runs every goroutine that can take a step: a pool that
\* can take a step eventually takes one.
SpecDashboard == InitDashboard /\ [][NextDashboard]_vars /\ WF_vars(NextDashboard)

(***************************************************************************)
(* Properties of the calculators, checked under SpecCalc.                  *)
(***************************************************************************)
\* A text that means ON.
On(text) == text \in {"1", "1.0"}

\* The rows of a state stream that lie in the day.
DayRows(sensorName) ==
    LET rows == TheDay[sensorName]
    IN  SelectSeq(rows, LAMBDA r : startOfDay <= r.time /\ r.time <= endOfDay)

\* Sum of t[i+1] - t[i] over the consecutive pairs whose earlier sample is
\* ON, plus end - t[last] when the last sample is ON and before the end.
OnTime(rows, end) ==
    LET n == Len(rows)
        pairs == [i \in 1..(IF n = 0 THEN 0 ELSE n - 1) |->
                    IF On(rows[i].value) THEN rows[i + 1].time - rows[i].time ELSE 0]
        tail == IF n > 0 /\ On(rows[n].value) /\ rows[n].time < end
                THEN end - rows[n].time ELSE 0
    IN  SumSeq(pairs) + tail

RuntimeCalled == calc.op = "calculateStateRuntime" /\ ~calc.err

\* C1: calculateStateRuntime returns, for the time-ascending samples of the
\* window, the sum of t[i+1] - t[i] over the consecutive pairs whose earlier
\* sample is ON, plus end - t[last] when the last sample is ON and
\* t[last] < end; for no samples it returns 0.
C1_RuntimeIsOnTime ==
    RuntimeCalled =>
        /\ calc.hours = Hours(OnTime(DayRows(calc.sensor), endOfDay))
        /\ DayRows(calc.sensor) = <<>> => calc.hours = 0

\* The samples [(t0,ON),(t1,OFF),(t2,ON)] with t2 before the end of the
\* window, and the runtime (t1 - t0) + (end - t2) returned.
C1_Witness ==
    /\ RuntimeCalled
    /\ LET rows == DayRows(calc.sensor)
       IN  /\ Len(rows) = 3
           /\ On(rows[1].value) /\ ~On(rows[2].value) /\ On(rows[3].value)
           /\ rows[1].time < rows[2].time /\ rows[2].time < rows[3].time
           /\ rows[3].time < endOfDay
           /\ calc.hours = Hours((rows[2].time - rows[1].time) + (endOfDay - rows[3].time))

FuelCalled == calc.op = "CalculateFuelChanges" /\ ~calc.err

\* The generator had an ON sample that day.
GeneratorActive ==
    \E i \in 1..Len(DayRows("generator_state")) : On(DayRows("generator_state")[i].value)

\* The day's parsed readings of a fuel sensor, in time order.
Readings(sensorName) == ParsedReadings(TheDay.fuel, sensorName)

Levels == Readings("fuel_sensor_level")
Volumes == Readings("fuel_sensor_volume")

\* The deltas of a sequence of readings: current - previous.
Deltas(readings) ==
    [i \in 1..(IF Len(readings) = 0 THEN 0 ELSE Len(readings) - 1) |->
        readings[i + 1] - readings[i]]

\* The drops, and the rises, among the deltas that keep(i) holds for.
Drops(deltas, keep(_)) ==
    SumSeq([i \in 1..Len(deltas) |-> IF keep(i) /\ deltas[i] < 0 THEN -deltas[i] ELSE 0])

Rises(deltas, keep(_)) ==
    SumSeq([i \in 1..Len(deltas) |-> IF keep(i) /\ deltas[i] > 0 THEN deltas[i] ELSE 0])

\* C2: a delta between consecutive fuel-level samples is discarded if and
\* only if the generator had no ON sample that day and the delta's magnitude
\* is strictly below 2.0.  With the generator inactive, the levels
\* [50,48,53] give consumed% = 2 and topped% = 5, and [50,49.5,50] give
\* consumed% = topped% = 0.
C2_LevelNoiseGate ==
    FuelCalled =>
        LET deltas == Deltas(Levels)
            keep(i) == ~(~GeneratorActive /\ Abs(deltas[i]) < 2000)
        IN  /\ calc.fuel.FuelConsumedPercent = Drops(deltas, keep)
            /\ calc.fuel.FuelToppedPercent = Rises(deltas, keep)
            /\ (~GeneratorActive /\ Levels = <<50000, 48000, 53000>>)
                  => /\ calc.fuel.FuelConsumedPercent = 2000
                     /\ calc.fuel.FuelToppedPercent = 5000
            /\ (~GeneratorActive /\ Levels = <<50000, 49500, 50000>>)
                  => /\ calc.fuel.FuelConsumedPercent = 0
                     /\ calc.fuel.FuelToppedPercent = 0

\* The generator inactive, the levels [50,48,53]: the delta of magnitude
\* exactly 2.0 is kept.
C2_Witness ==
    /\ FuelCalled
    /\ ~GeneratorActive
    /\ Levels = <<50000, 48000, 53000>>
    /\ calc.fuel.FuelConsumedPercent = 2000
    /\ calc.fuel.FuelToppedPercent = 5000

\* C3: with the generator inactive, a delta of the fuel-volume sequence is
\* discarded exactly when the previous reading is > 0 and
\* |delta| / previous * 100 < 2.0; when the previous reading is <= 0 the
\* delta is counted whatever its magnitude.
C3_VolumeNoiseGate ==
    (FuelCalled /\ ~GeneratorActive) =>
        LET deltas == Deltas(Volumes)
            keep(i) == ~(Volumes[i] > 0 /\ Abs(deltas[i]) * 100 < 2 * Volumes[i])
        IN  /\ calc.fuel.TotalFuelConsumed = Drops(deltas, keep)
            /\ calc.fuel.TotalFuelTopped = Rises(deltas, keep)

\* The generator inactive, the volumes [-1,0]: the previous reading is not
\* positive, and the delta of magnitude 1.0 is counted.
C3_Witness ==
    /\ FuelCalled
    /\ ~GeneratorActive
    /\ Volumes = <<-1000, 0>>
    /\ calc.fuel.TotalFuelConsumed = 0
    /\ calc.fuel.TotalFuelTopped = 1000

\* C4: for the level and the volume sequence independently, every kept delta
\* adds to exactly one total: a positive delta to topped, a negative delta
\* its absolute value to consumed, a zero delta to neither; the totals are
\* never netted, and a sequence of fewer than two samples gives zero for
\* both of its totals.
C4_DeltaClassification ==
    FuelCalled =>
        LET levelDeltas == Deltas(Levels)
            volumeDeltas == Deltas(Volumes)
            keepLevel(i) == ~LevelSkipped(GeneratorActive, levelDeltas[i])
            keepVolume(i) == ~VolumeSkipped(GeneratorActive, Volumes[i], volumeDeltas[i])
        IN  /\ calc.fuel.FuelConsumedPercent = Drops(levelDeltas, keepLevel)
            /\ calc.fuel.FuelToppedPercent = Rises(levelDeltas, keepLevel)
            /\ calc.fuel.TotalFuelConsumed = Drops(volumeDeltas, keepVolume)
            /\ calc.fuel.TotalFuelTopped = Rises(volumeDeltas, keepVolume)
            /\ Len(Levels) < 2 =>
                  calc.fuel.FuelConsumedPercent = 0 /\ calc.fuel.FuelToppedPercent = 0
            /\ Len(Volumes) < 2 =>
                  calc.fuel.TotalFuelConsumed = 0 /\ calc.fuel.TotalFuelTopped = 0

\* A drop followed by an equal rise, [50,48,50]: both totals are positive.
C4_Witness ==
    /\ FuelCalled
    /\ Levels = <<50000, 48000, 50000>>
    /\ calc.fuel.FuelConsumedPercent = 2000
    /\ calc.fuel.FuelToppedPercent = 2000

PowerCalled == calc.op = "CalculatePowerRuntimes" /\ ~calc.err

\* C5: the four fuel metrics CalculateFuelChanges returns and the three
\* power metrics CalculatePowerRuntimes returns are all non-negative.
C5_MetricsNonNegative ==
    /\ calc.fuel.TotalFuelConsumed >= 0
    /\ calc.fuel.TotalFuelTopped >= 0
    /\ calc.fuel.FuelConsumedPercent >= 0
    /\ calc.fuel.FuelToppedPercent >= 0
    /\ calc.power.TotalGeneratorRuntime >= 0
    /\ calc.power.TotalZesaRuntime >= 0
    /\ calc.power.TotalOfflineTime >= 0

\* Fuel metrics of a day whose volume readings fall below zero, [0,-1]: the
\* drop is counted as 1.0 consumed, and no total is negative.
C5_Witness ==
    /\ FuelCalled
    /\ Volumes = <<0, -1000>>
    /\ calc.fuel.TotalFuelConsumed = 1000
    /\ calc.fuel.TotalFuelTopped = 0

Done(c) == req[c].pc = "done"

\* The request got past its pre-flight steps: the batches were started.
PreflightPassed(c) == Len(req[c].sites) > 0

ReportedSites(c) == {req[c].body.sites[j].SiteID : j \in 1..Len(req[c].body.sites)}

\* The entry of site s in the response of client c.
ResultOf(c, s) ==
    LET results == req[c].body.sites
    IN  results[CHOOSE j \in 1..Len(results) : results[j].SiteID = s]

Succeeded(c, s) ==
    /\ Done(c)
    /\ req[c].http = 200
    /\ s \in ReportedSites(c)
    /\ ResultOf(c, s).Status # "ERROR"

\* The seven metric values of a result, as the upsert formats them.
FormattedMetrics(result) ==
    <<Format2(result.FuelConsumed), Format2(result.FuelTopped),
      Format2(result.FuelConsumedPercent), Format2(result.FuelToppedPercent),
      Format2(result.GeneratorHours), Format2(result.ZesaHours),
      Format2(result.OfflineHours)>>

ResultMetrics(result) ==
    <<result.FuelConsumed, result.FuelTopped, result.FuelConsumedPercent,
      result.FuelToppedPercent, result.GeneratorHours, result.ZesaHours,
      result.OfflineHours>>

RowMetrics(row) ==
    <<row.total_fuel_consumed, row.total_fuel_topped_up, row.fuel_consumed_percent,
      row.fuel_topped_up_percent, row.total_generator_runtime,
      row.total_zesa_runtime, row.total_offline_time>>

RowsOf(s, date) == {r \in cumulative_readings : r.site_id = s /\ r.date = date}

EventAt(e, c) == CHOOSE i \in 1..Len(events) : events[i] = [e |-> e, c |-> c]

\* The request of c1 was answered before the request of c2 began.
RanBefore(c1, c2) == Done(c1) /\ Done(c2) /\ EventAt("done", c1) < EventAt("begin", c2)

\* No sample arrived from the start of the request of c1 to the answer of
\* the request of c2.
SamplesUnchanged(c1, c2) ==
    \A i \in 1..Len(events) :
        events[i].e = "ingest" =>
            i < EventAt("begin", c1) \/ i > EventAt("done", c2)

TwiceInSequence(c1, c2, s) ==
    /\ c1 # c2
    /\ RanBefore(c1, c2)
    /\ req[c1].date = req[c2].date
    /\ SamplesUnchanged(c1, c2)
    /\ Succeeded(c1, s)
    /\ Succeeded(c2, s)

C8_OneRowPerSiteAndDate ==
    \A r1 \in cumulative_readings, r2 \in cumulative_readings :
        (r1.site_id = r2.site_id /\ r1.date = r2.date) => r1 = r2

\* Two requests that overlapped in time both wrote site 1 for the same day,
\* and the store holds the one record, created by one and updated by the
\* other.
C8_Witness ==
    /\ Succeeded(1, 1) /\ Succeeded(2, 1)
    /\ req[1].date = req[2].date
    /\ EventAt("begin", 1) < EventAt("done", 2)
    /\ EventAt("begin", 2) < EventAt("done", 1)
    /\ Cardinality(RowsOf(1, req[1].date)) = 1
    /\ \E row \in RowsOf(1, req[1].date) : row.created_at < row.calculated_at

\* A batch goroutine whose processSingleSite call has both its computations
\* returned, one of them with an error.
CalcFailed(c, b) ==
    /\ Working(c, b)
    /\ req[c].batch[b].fuelErr # "pending"
    /\ req[c].batch[b].powerErr # "pending"
    /\ req[c].batch[b].fuelErr = "error" \/ req[c].batch[b].powerErr = "error"

\* C9: when the fuel computation or the power computation of a site has
\* failed, processSingleSite returns without issuing the upsert: the store
\* is left as it was, and the site's result is an ERROR with a message.
C9_NoUpsertAfterCalcError ==
    [][\A c \in Clients, b \in 1..NumSites :
          (CalcFailed(c, b)
             /\ Len(req'[c].batch[b].results) = Len(req[c].batch[b].results) + 1)
          => /\ cumulative_readings' = cumulative_readings
             /\ wallClock' = wallClock
             /\ LET result == req'[c].batch[b].results[Len(req'[c].batch[b].results)]
                IN  /\ result.SiteID = CurrentSite(c, b)
                    /\ result.Status = "ERROR"
                    /\ result.Error # ""]_vars

\* Site 1 failed in a computation for day 1 while a record of it was stored
\* for that day: the record is as it was.
C9_Witness ==
    /\ Done(1)
    /\ req[1].date = 1
    /\ 1 \in ReportedSites(1)
    /\ ResultOf(1, 1).Error = "Calculation error"
    /\ cumulative_readings # {}
    /\ RowsOf(1, 1) = {EarlierRow}

\* C10: in a single-day request that got past its pre-flight steps, failing
\* sites never abort the batch: the request is answered with HTTP 200,
\* every site of the request is reported exactly once with its own status, and every site reported
\* CREATED or UPDATED has its record written with the metrics reported;
\* this also when every site ends in ERROR.
C10_FailuresDoNotAbort ==
    \A c \in Clients :
        (Done(c) /\ PreflightPassed(c)) =>
            LET results == req[c].body.sites
            IN  /\ req[c].http = 200
                /\ Len(results) = Len(req[c].sites)
                /\ \A i \in 1..Len(req[c].sites) :
                       Cardinality({j \in 1..Len(results) :
                                       results[j].SiteID = req[c].sites[i]}) = 1
                /\ \A j \in 1..Len(results) :
                       results[j].Status \in {"CREATED", "UPDATED", "ERROR"}
                /\ \A j \in 1..Len(results) :
                       results[j].Status # "ERROR" =>
                           \E row \in RowsOf(results[j].SiteID, req[c].date) :
                               RowMetrics(row) = FormattedMetrics(results[j])

\* The first site of the first batch failed; the second site of that batch
\* and the site of the other batch were computed, written and reported.
C10_Witness ==
    /\ Done(1) /\ PreflightPassed(1)
    /\ req[1].http = 200
    /\ ResultOf(1, 1).Status = "ERROR"
    /\ ResultOf(1, 2).Status = "CREATED"
    /\ ResultOf(1, 3).Status = "CREATED"
    /\ RowsOf(2, req[1].date) # {} /\ RowsOf(3, req[1].date) # {}

\* Every site of the request ended in ERROR, and the request was answered
\* with HTTP 200.
C10_AllSitesFailed ==
    /\ Done(1) /\ PreflightPassed(1)
    /\ req[1].http = 200
    /\ \A s \in Sites : ResultOf(1, s).Status = "ERROR"

(***************************************************************************)
(* The join, the sort and the summary of the single-day handler.           *)
(***************************************************************************)
\* The entries of a list of results that are of site s.
EntriesOf(results, s) == {j \in 1..Len(results) : results[j].SiteID = s}

\* C11: under every interleaving of the batch goroutines,
\* processSitesInBatches returns only after every batch has finished and
\* appended its results under the mutex: the merged list and the returned
\* list hold exactly one entry per input site, each the result its batch
\* produced, and the summary has processedSites + errorSites = totalSites.
C11_JoinLosesNothing ==
    \A c \in Clients :
        (Done(c) /\ PreflightPassed(c)) =>
            /\ \A b \in DOMAIN req[c].batch :
                   /\ req[c].batch[b].i > Len(req[c].batch[b].sites)
                   /\ Len(req[c].batch[b].results) = Len(req[c].batch[b].sites)
                   /\ req[c].batch[b].merged
                   /\ \A k \in 1..Len(req[c].batch[b].results) :
                          \E j \in 1..Len(req[c].allResults) :
                              req[c].allResults[j] = req[c].batch[b].results[k]
            /\ Len(req[c].allResults) = Len(req[c].sites)
            /\ Len(req[c].body.sites) = Len(req[c].sites)
            /\ \A i \in 1..Len(req[c].sites) :
                   /\ Cardinality(EntriesOf(req[c].allResults, req[c].sites[i])) = 1
                   /\ Cardinality(EntriesOf(req[c].body.sites, req[c].sites[i])) = 1
            /\ req[c].body.summary.TotalSites = Len(req[c].sites)
            /\ req[c].body.summary.ProcessedSites + req[c].body.summary.ErrorSites
                   = req[c].body.summary.TotalSites

\* The batch spawned last appended first, and a site of the other batch
\* ended in ERROR: the three sites are all in the response.
C11_Witness ==
    /\ Done(1) /\ PreflightPassed(1)
    /\ Len(req[1].batch) = 2
    /\ req[1].allResults[1].SiteID = 3
    /\ ResultOf(1, 2).Status = "ERROR"
    /\ req[1].body.summary.ProcessedSites = 2
    /\ req[1].body.summary.ErrorSites = 1

\* The elements of a list.
Elements(list) == {list[j] : j \in 1..Len(list)}

\* The number of times x occurs in a list.
Occurrences(list, x) == Cardinality({j \in 1..Len(list) : list[j] = x})

IsPermutation(a, b) ==
    /\ Len(a) = Len(b)
    /\ \A x \in Elements(a) \cup Elements(b) : Occurrences(a, x) = Occurrences(b, x)

\* The field the list of a response is ranked by.
RankOf(c, result) ==
    IF c \in RangeClients THEN result.TotalFuelConsumed ELSE result.FuelConsumed

\* The request of c ran its batches and was answered.
Orchestrated(c) == Done(c) /\ req[c].http = 200 /\ Len(req[c].sites) > 0

\* C12: whatever order the batches complete in, the list the single-day
\* orchestrator returns is a permutation of the merged results in
\* non-increasing order of fuelConsumed, and the list the range orchestrator
\* returns is a permutation of its merged results in non-increasing order
\* of totalFuelConsumed.
C12_SortedPermutation ==
    \A c \in AllClients :
        Orchestrated(c) =>
            /\ IsPermutation(req[c].body.sites, req[c].allResults)
            /\ \A j \in 1..(Len(req[c].body.sites) - 1) :
                   RankOf(c, req[c].body.sites[j]) >= RankOf(c, req[c].body.sites[j + 1])

\* A range request over three sites whose merged results were in increasing
\* order of totalFuelConsumed: the response lists them the other way round.
C12_Witness ==
    /\ Orchestrated(3)
    /\ Len(req[3].allResults) = 3
    /\ req[3].allResults[1].TotalFuelConsumed < req[3].allResults[2].TotalFuelConsumed
    /\ req[3].allResults[2].TotalFuelConsumed < req[3].allResults[3].TotalFuelConsumed
    /\ req[3].body.sites = <<req[3].allResults[3], req[3].allResults[2], req[3].allResults[1]>>

SummaryCalled == calc.op = "calculateSummary"

\* The sum of a field over the results that are not ERROR.
SumOfNonError(results, field) ==
    SumSeq([j \in 1..Len(results) |->
              IF results[j].Status # "ERROR" THEN results[j][field] ELSE 0])

\* total is sum rounded half-up to a multiple of unit.
IsRoundedHalfUp(total, sum, unit) ==
    /\ total % unit = 0
    /\ 2 * total <= 2 * sum + unit
    /\ 2 * sum + unit < 2 * total + 2 * unit

\* C13: calculateSummary counts every ERROR result in errorSites and every
\* other result in processedSites, and its five totals are the sums of the
\* metric over the non-ERROR results only (rounded to 1 decimal for the fuel
\* totals and 2 decimals for the hour totals); totalSites is the number
\* passed in.  Results [{fuelConsumed 10, not ERROR}, {ERROR}] with
\* totalSites = 2 give processedSites = 1, errorSites = 1,
\* totalFuelConsumed = 10.0.
C13_SummaryCounts ==
    SummaryCalled =>
        LET results == calc.args[1]
            totalSites == calc.args[2]
            summary == calc.summary
            errors == {j \in 1..Len(results) : results[j].Status = "ERROR"}
        IN  /\ summary.ErrorSites = Cardinality(errors)
            /\ summary.ProcessedSites = Len(results) - Cardinality(errors)
            /\ summary.TotalSites = totalSites
            /\ IsRoundedHalfUp(summary.TotalFuelConsumed,
                               SumOfNonError(results, "FuelConsumed"), 100)
            /\ IsRoundedHalfUp(summary.TotalFuelTopped,
                               SumOfNonError(results, "FuelTopped"), 100)
            /\ IsRoundedHalfUp(summary.TotalGeneratorHours,
                               SumOfNonError(results, "GeneratorHours"), 10)
            /\ IsRoundedHalfUp(summary.TotalZesaHours,
                               SumOfNonError(results, "ZesaHours"), 10)
            /\ IsRoundedHalfUp(summary.TotalOfflineHours,
                               SumOfNonError(results, "OfflineHours"), 10)
            /\ (/\ Len(results) = 2 /\ totalSites = 2
                /\ results[1].Status # "ERROR" /\ results[1].FuelConsumed = 10000
                /\ results[2].Status = "ERROR")
                  => /\ summary.ProcessedSites = 1
                     /\ summary.ErrorSites = 1
                     /\ summary.TotalFuelConsumed = 10000

\* The results [{fuelConsumed 10, CREATED}, {ERROR}] with totalSites = 2.
C13_Witness ==
    /\ SummaryCalled
    /\ Len(calc.args[1]) = 2 /\ calc.args[2] = 2
    /\ calc.args[1][1].Status = "CREATED" /\ calc.args[1][1].FuelConsumed = 10000
    /\ calc.args[1][2].Status = "ERROR" /\ calc.args[1][2].FuelConsumed = 10000
    /\ calc.summary.ProcessedSites = 1
    /\ calc.summary.ErrorSites = 1
    /\ calc.summary.TotalFuelConsumed = 10000

(***************************************************************************)
(* Properties of the range handler, checked under SpecRange.               *)
(***************************************************************************)
\* The stored readings of site s whose date lies in the window of the range
\* request of c.
ReadingsInWindow(c, s) ==
    {r \in cumulative_readings :
        r.site_id = s /\ req[c].date <= r.date /\ r.date <= req[c].endDate}

\* C14: in the range variant a site with no cumulative reading dated in
\* [startDate, endDate] is absent from the result list, every returned site
\* has readingDays >= 1, and summary.totalSites counts the returned sites
\* only.
C14_RangeDropsEmptySites ==
    \A c \in RangeClients :
        Orchestrated(c) =>
            /\ \A i \in 1..Len(req[c].sites) :
                   ReadingsInWindow(c, req[c].sites[i]) = {}
                      => EntriesOf(req[c].body.sites, req[c].sites[i]) = {}
            /\ \A j \in 1..Len(req[c].body.sites) :
                   /\ req[c].body.sites[j].ReadingDays >= 1
                   /\ req[c].body.sites[j].ReadingDays
                          = Cardinality(ReadingsInWindow(c, req[c].body.sites[j].SiteID))
            /\ req[c].body.summary.TotalSites = Len(req[c].body.sites)

\* A range request for day 2 alone, over three sites of which site 2 has
\* its only reading on day 1: sites 1 and 3 are returned, site 2 is not.
C14_Witness ==
    /\ Orchestrated(3)
    /\ req[3].date = 2 /\ req[3].endDate = 2
    /\ \E r \in cumulative_readings : r.site_id = 2
    /\ ReadingsInWindow(3, 2) = {}
    /\ {req[3].body.sites[j].SiteID : j \in 1..Len(req[3].body.sites)} = {1, 3}
    /\ req[3].body.summary.TotalSites = 2

DaysDifferenceCalled == calc.op = "calculateDaysDifference"

\* C15: calculateDaysDifference returns the inclusive number of calendar
\* days of the request window: 1 when start and end are the same day,
\* otherwise the day difference plus 1; day 1 to day 3 gives 3.
C15_DaysInclusive ==
    DaysDifferenceCalled =>
        LET startDay == calc.args[1]
            endDay == calc.args[2]
        IN  /\ startDay = endDay => calc.summary = 1
            /\ startDay # endDay => calc.summary = (endDay - startDay) + 1
            /\ startDay <= endDay => calc.summary = Cardinality(startDay..endDay)
            /\ (startDay = 1 /\ endDay = 3) => calc.summary = 3

\* The window from day 1 to day 3: 3 days.
C15_Witness ==
    /\ DaysDifferenceCalled
    /\ calc.args = <<1, 3>>
    /\ calc.summary = 3

(***************************************************************************)
(* Properties of the pre-flight steps, checked under Spec and SpecRange.   *)
(***************************************************************************)
\* The request r got its site list from GetSitesForUser.
SitesResolved(r) ==
    /\ Len(r.calls) >= 1
    /\ r.calls[1].call = "GetSitesForUser"
    /\ ~r.calls[1].failed

\* The step by which the handler receives the request of c.
Received(c) == req[c].pc = "idle" /\ req'[c].pc # "idle"

\* C16: a single-day request of a user with zero visible sites is answered
\* with HTTP 200, sites = [] and every summary field 0, without the
\* prefetch of existing records, without any metric computation and without
\* a write to the store.
C16_NoSitesEmptySuccess ==
    [][\A c \in Clients :
          (Received(c) /\ user_sites[c] = <<>> /\ SitesResolved(req'[c]))
          => /\ req'[c].pc = "done"
             /\ req'[c].http = 200
             /\ req'[c].body.sites = <<>>
             /\ req'[c].body.summary =
                    [TotalSites |-> 0, ProcessedSites |-> 0, ErrorSites |-> 0,
                     TotalFuelConsumed |-> 0, TotalFuelTopped |-> 0,
                     TotalGeneratorHours |-> 0, TotalZesaHours |-> 0,
                     TotalOfflineHours |-> 0]
             /\ \A k \in 1..Len(req'[c].calls) :
                    req'[c].calls[k].call # "GetExistingCumulativeReadings"
             /\ req'[c].batch = <<>>
             /\ cumulative_readings' = cumulative_readings]_vars

\* The user of client 1 sees no site, a record of another site is stored,
\* and the request was answered with the empty response.
C16_Witness ==
    /\ Done(1)
    /\ user_sites[1] = <<>>
    /\ SitesResolved(req[1])
    /\ req[1].http = 200
    /\ req[1].body.sites = <<>>
    /\ cumulative_readings = {EarlierRow}

\* C17: a request with a malformed date text (single-day or range), or a
\* range request without startDate, is rejected with HTTP 400 before any
\* site resolution, metric computation or write: the step that receives it
\* answers it, calls no storage and leaves the store unchanged.
C17_MalformedRejected ==
    [][\A c \in AllClients :
          (Received(c) /\ req'[c].malformed)
          => /\ req'[c].pc = "done"
             /\ req'[c].http = 400
             /\ req'[c].calls = <<>>
             /\ req'[c].sites = <<>>
             /\ req'[c].batch = <<>>
             /\ req'[c].body.sites = <<>>
             /\ cumulative_readings' = cumulative_readings]_vars

\* A range request with a malformed date or without startDate, rejected
\* with the records of earlier runs stored and the user seeing every site.
C17_Witness ==
    /\ Done(3)
    /\ req[3].malformed
    /\ req[3].http = 400
    /\ req[3].calls = <<>>
    /\ Len(user_sites[3]) = NumSites
    /\ Cardinality(cumulative_readings) = Cardinality(RangeKeys)

\* A storage call of the pre-flight steps of r failed.
PreflightFailed(r) == \E k \in 1..Len(r.calls) : r.calls[k].failed

\* C18: in a single-day request, a failure of the site-list resolution or
\* of the existing-records prefetch aborts the whole request with HTTP 500:
\* no per-site computation is started and no cumulative reading is written.
C18_PreflightFailureAborts ==
    [][\A c \in Clients :
          (Received(c) /\ PreflightFailed(req'[c]))
          => /\ req'[c].pc = "done"
             /\ req'[c].http = 500
             /\ req'[c].batch = <<>>
             /\ req'[c].allResults = <<>>
             /\ req'[c].body.sites = <<>>
             /\ cumulative_readings' = cumulative_readings]_vars

\* The user of client 1 sees every site and the prefetch of the existing
\* records failed: the request was answered 500 and the stored record is
\* as it was.
C18_Witness ==
    /\ Done(1)
    /\ Len(user_sites[1]) = NumSites
    /\ Len(req[1].calls) = 2
    /\ req[1].calls[2].call = "GetExistingCumulativeReadings"
    /\ req[1].calls[2].failed
    /\ req[1].http = 500
    /\ cumulative_readings = {EarlierRow}

\* The sites whose query the batch goroutines of the range request of c
\* found failed.
QueryFailed(c) == UNION {req[c].batch[b].logged : b \in DOMAIN req[c].batch}

\* C19 as stated: in the range variant a site whose storage query fails
\* appears in the response as an ERROR entry with a message, with the sibling
\* sites unaffected and the request answered with HTTP 200.
C19_RangeFailureIsErrorEntry ==
    \A c \in RangeClients :
        Orchestrated(c) =>
            /\ req[c].http = 200
            /\ \A s \in QueryFailed(c) :
                   /\ EntriesOf(req[c].body.sites, s) # {}
                   /\ \A j \in EntriesOf(req[c].body.sites, s) :
                          /\ {"Status", "Error"} \subseteq DOMAIN req[c].body.sites[j]
                          /\ req[c].body.sites[j].Status = "ERROR"
                          /\ req[c].body.sites[j].Error # ""

\* C19, amended: in the range variant a site whose storage query fails has
\* its failure caught locally and is left out of the response: it has no
\* entry, ERROR or other, and is not counted in summary.totalSites; every
\* sibling site with readings in the window is returned with its aggregate,
\* and the request is answered with HTTP 200.
C19_RangeFailureOmitsSite ==
    \A c \in RangeClients :
        Orchestrated(c) =>
            /\ req[c].http = 200
            /\ \A i \in 1..Len(req[c].sites) :
                   LET s == req[c].sites[i]
                       entries == EntriesOf(req[c].body.sites, s)
                   IN  /\ s \in QueryFailed(c) => entries = {}
                       /\ (s \notin QueryFailed(c) /\ ReadingsInWindow(c, s) # {})
                             => /\ Cardinality(entries) = 1
                                /\ \A j \in entries :
                                       req[c].body.sites[j].ReadingDays
                                          = Cardinality(ReadingsInWindow(c, s))
            /\ \A j \in 1..Len(req[c].body.sites) :
                   "Status" \notin DOMAIN req[c].body.sites[j]
            /\ req[c].body.summary.TotalSites
                   = Cardinality({i \in 1..Len(req[c].sites) :
                                     /\ req[c].sites[i] \notin QueryFailed(c)
                                     /\ ReadingsInWindow(c, req[c].sites[i]) # {}})

\* The query of site 1 failed while the site had readings in the window:
\* the response holds sites 2 and 3 and no entry of site 1.
C19_Witness ==
    /\ Orchestrated(3)
    /\ QueryFailed(3) = {1}
    /\ ReadingsInWindow(3, 1) # {}
    /\ {req[3].body.sites[j].SiteID : j \in 1..Len(req[3].body.sites)} = {2, 3}
    /\ req[3].http = 200

(***************************************************************************)
(* Parallelism of the single-day path, checked under Spec.                 *)
(***************************************************************************)
\* The batch goroutines of the request of c have been started.
Started(c) == req[c].pc = "running" \/ Orchestrated(c)

\* The sites of batch b that processBatch has not yet called
\* processSingleSite for: those after the site it is working on.
WaitingSites(c, b) ==
    {req[c].batch[b].sites[k] :
        k \in (req[c].batch[b].i + 1)..Len(req[c].batch[b].sites)}

\* C20 as stated: the per-site calculations are parallel within a batch as
\* across batches, so that two sites of one batch can be in progress at the
\* same time: no site of a batch at work waits for another site of its batch.
C20_IntraBatchParallel ==
    \A c \in Clients, b \in 1..NumSites :
        Working(c, b) => WaitingSites(c, b) = {}

\* C20, amended: the per-site calculations are parallel across batches
\* only.  Within a batch the sites are calculated one after another in list
\* order: the results a batch has are those of the sites before the one it
\* is working on, in that order, and every later site waits.  The batches
\* partition the site list: each site is in exactly one batch, each batch
\* has at most batchSize sites, and only the last can have fewer.
C20_BatchesPartitionAndRunInOrder ==
    \A c \in Clients :
        Started(c) =>
            LET batch == req[c].batch
                sites == req[c].sites
            IN  /\ \A b \in DOMAIN batch :
                       /\ Len(batch[b].sites) >= 1
                       /\ Len(batch[b].sites) <= batchSize
                       /\ b < Len(batch) => Len(batch[b].sites) = batchSize
                       /\ Len(batch[b].results) = batch[b].i - 1
                       /\ \A k \in 1..Len(batch[b].results) :
                              batch[b].results[k].SiteID = batch[b].sites[k]
                       /\ Working(c, b) =>
                              WaitingSites(c, b) =
                                 {batch[b].sites[k] : k \in 1..Len(batch[b].sites)}
                                    \ ({batch[b].results[k].SiteID :
                                           k \in 1..Len(batch[b].results)}
                                        \cup {CurrentSite(c, b)})
                /\ SumSeq([b \in DOMAIN batch |-> Len(batch[b].sites)]) = Len(sites)
                /\ \A i \in 1..Len(sites) :
                       Cardinality({bk \in (DOMAIN batch) \X (1..batchSize) :
                                       /\ bk[2] <= Len(batch[bk[1]].sites)
                                       /\ batch[bk[1]].sites[bk[2]] = sites[i]}) = 1

\* Sites 1 and 3, of different batches, are both in progress, each with its
\* fuel computation returned, while site 2 waits for site 1 in its batch.
C20_Witness ==
    /\ req[1].pc = "running"
    /\ Len(req[1].batch) = 2
    /\ Working(1, 1) /\ CurrentSite(1, 1) = 1 /\ req[1].batch[1].fuelErr # "pending"
    /\ Working(1, 2) /\ CurrentSite(1, 2) = 3 /\ req[1].batch[2].fuelErr # "pending"
    /\ WaitingSites(1, 1) = {2}

(***************************************************************************)
(* Concurrency of the range path, checked under SpecRange.                 *)
(***************************************************************************)
\* The batches of the range request of c whose goroutine is inside
\* getSiteRangeData: one per-site range query is executing for each.
RangeQueriesInFlight(c) ==
    IF req[c].pc # "ranging" THEN {}
    ELSE {b \in DOMAIN req[c].batch :
             req[c].batch[b].i <= Len(req[c].batch[b].sites)}

\* The worker pool of the claim: 15 workers, fewer than the 20 sites of one
\* batch of the code, kept below rangeBatchSize at the scale of the model.
\* The pool is exceeded once there are more than rangePoolSize batches.
rangePoolSize == rangeBatchSize - 1

UpsertArguments(c, b) ==
    <<Format2(req[c].batch[b].fuelMetrics.TotalFuelConsumed),
      Format2(req[c].batch[b].fuelMetrics.TotalFuelTopped),
      Format2(req[c].batch[b].fuelMetrics.FuelConsumedPercent),
      Format2(req[c].batch[b].fuelMetrics.FuelToppedPercent),
      Format2(req[c].batch[b].powerMetrics.TotalGeneratorRuntime),
      Format2(req[c].batch[b].powerMetrics.TotalZesaRuntime),
      Format2(req[c].batch[b].powerMetrics.TotalOfflineTime)>>

\* C22: an upsert on an existing (site, date) record overwrites the seven
\* metric fields with the values passed and sets the calculation timestamp
\* to the time of the call, while the creation timestamp, the site, the
\* device and the date of the record stay as they were; an upsert on an
\* absent key creates the record with both timestamps set to the time of the
\* call.  Records of other keys are not touched.
C22_UpsertFrame ==
    [][\A s \in Sites, d \in Dates :
          RowsOf(s, d)' # RowsOf(s, d) =>
              /\ Cardinality(RowsOf(s, d)') = 1
              /\ \A t \in Sites, e \in Dates :
                     <<t, e>> # <<s, d>> => RowsOf(t, e)' = RowsOf(t, e)
              /\ \A new \in RowsOf(s, d)' :
                     /\ new.calculated_at = wallClock
                     /\ \E c \in Clients, b \in 1..NumSites :
                            /\ Working(c, b)
                            /\ CurrentSite(c, b) = s
                            /\ req[c].date = d
                            /\ RowMetrics(new) = UpsertArguments(c, b)
                     /\ RowsOf(s, d) = {} =>
                            /\ new.created_at = wallClock
                            /\ new.device_id = DeviceOf(s)
                     /\ \A old \in RowsOf(s, d) :
                            /\ new.created_at = old.created_at
                            /\ new.device_id = old.device_id
                            /\ new.site_id = old.site_id
                            /\ new.date = old.date
      ]_vars

\* The record of site 1 for day 1, stored before the request with no fuel
\* consumed, has been overwritten with the day's consumption and a later
\* calculation timestamp and keeps its creation timestamp, while the record
\* of site 2 was created by the request with both timestamps equal.
C22_Witness ==
    /\ \E row \in RowsOf(1, 1) :
          /\ row.created_at = EarlierRow.created_at
          /\ row.calculated_at > row.created_at
          /\ row.total_fuel_consumed > EarlierRow.total_fuel_consumed
    /\ \E row \in RowsOf(2, 1) :
          /\ row.created_at = row.calculated_at
          /\ row.created_at > EarlierRow.created_at

(***************************************************************************)
(* The join of the two computations of a site, checked under Spec.         *)
(***************************************************************************)
\* The step is the end of the processSingleSite call of batch b: its result
\* is appended to the results of the batch.
SiteFinished(c, b) ==
    /\ Working(c, b)
    /\ Len(req'[c].batch[b].results) = Len(req[c].batch[b].results) + 1

\* C23: the fuel computation and the power computation of a site run as two
\* concurrent units, and in every interleaving both have returned before the
\* upsert is issued and before the result is built: the step that writes the
\* record or builds the result is taken with neither computation in
\* progress, and the values written and reported are the ones the two
\* computations returned.
C23_BothCompleteBeforeWrite ==
    [][/\ \A c \in Clients, b \in 1..NumSites :
            SiteFinished(c, b) =>
                 LET batch == req[c].batch[b]
                     result == req'[c].batch[b].results[Len(req'[c].batch[b].results)]
                 IN  /\ batch.fuelErr \in {"nil", "error"}
                     /\ batch.powerErr \in {"nil", "error"}
                     /\ result.Status # "ERROR" =>
                            ResultMetrics(result) =
                               <<batch.fuelMetrics.TotalFuelConsumed,
                                 batch.fuelMetrics.TotalFuelTopped,
                                 batch.fuelMetrics.FuelConsumedPercent,
                                 batch.fuelMetrics.FuelToppedPercent,
                                 batch.powerMetrics.TotalGeneratorRuntime,
                                 batch.powerMetrics.TotalZesaRuntime,
                                 batch.powerMetrics.TotalOfflineTime>>
       /\ \A s \in Sites, d \in Dates :
             RowsOf(s, d)' # RowsOf(s, d) =>
                 \E c \in Clients, b \in 1..NumSites :
                     /\ SiteFinished(c, b)
                     /\ CurrentSite(c, b) = s
                     /\ req[c].date = d
                     /\ req[c].batch[b].fuelErr = "nil"
                     /\ req[c].batch[b].powerErr = "nil"
      ]_vars

\* The first batch has written the record of site 1 and reported it, and is
\* now at site 2 with the power computation returned while the fuel
\* computation is still in progress; in the second batch it is the fuel
\* computation that returned first.
C23_Witness ==
    /\ Working(1, 1) /\ CurrentSite(1, 1) = 2
    /\ req[1].batch[1].results[1].Status \in {"CREATED", "UPDATED"}
    /\ RowsOf(1, req[1].date) # {}
    /\ req[1].batch[1].powerErr = "nil" /\ req[1].batch[1].fuelErr = "pending"
    /\ Working(1, 2)
    /\ req[1].batch[2].fuelErr = "nil" /\ req[1].batch[2].powerErr = "pending"

(***************************************************************************)
(* The ON predicate of the generator-activity flag, checked under SpecCalc.*)
(***************************************************************************)
OnTexts == {"1", "1.0"}

\* The generator_state samples of the day that lie in its window.
SamplesInDay ==
    {i \in 1..Len(TheDay.generator_state) :
        /\ TheDay.generator_state[i].time >= startOfDay
        /\ TheDay.generator_state[i].time <= endOfDay}

\* C24: the generator-active flag is true exactly when at least one
\* generator_state sample in the window of the day has the text "1" or
\* "1.0", and that is the ON predicate calculateStateRuntime applies to a
\* sample: it counts run time only in a day with such a sample, and a single
\* sample before the end of the day gives run time exactly when it has one
\* of the two texts.  Any other text is OFF in both.
C24_ActivityFlagIsOnPredicate ==
    LET on == {i \in SamplesInDay : TheDay.generator_state[i].value \in OnTexts}
    IN  /\ (calc.op = "hasGeneratorActivity" /\ ~calc.err) =>
               (calc.active <=> on # {})
        /\ (calc.op = "calculateStateRuntime" /\ calc.sensor = "generator_state"
                /\ ~calc.err) =>
               /\ calc.hours > 0 => on # {}
               /\ (Len(TheDay.generator_state) = 1 /\ SamplesInDay = {1}
                      /\ TheDay.generator_state[1].time < endOfDay) =>
                     (calc.hours > 0 <=> on # {})
               /\ (calc.hours > 0) =>
                     hasGeneratorActivity(TheDay.generator_state, startOfDay, endOfDay)

\* The flag is true for a day whose only ON sample has the text "1.0", next
\* to a sample with the text "on" and a sample outside the window.
C24_Witness ==
    /\ calc.op = "hasGeneratorActivity"
    /\ calc.active
    /\ \E i \in SamplesInDay : TheDay.generator_state[i].value = "1.0"
    /\ \E i \in SamplesInDay : TheDay.generator_state[i].value = "on"
    /\ \A i \in SamplesInDay : TheDay.generator_state[i].value # "1"
    /\ \E i \in 1..Len(TheDay.generator_state) : i \notin SamplesInDay

(***************************************************************************)
(* Rounding of the summaries, checked under SpecSummary.                   *)
(***************************************************************************)
\* The sum of a field over all the results.
SumOfField(results, field) ==
    SumSeq([j \in 1..Len(results) |-> results[j][field]])

\* C25: for a non-negative value roundToDecimal rounds half-up, not to the
\* even neighbour: roundToDecimal(v, d) = floor(v * 10^d + 0.5) / 10^d.  Both
\* summaries apply it with d = 1 to the fuel totals and with d = 2 to the
\* hour totals; the averageFuelPerSite of the range summary is the total
\* fuel consumed divided by the number of returned sites, rounded in the
\* same way to one decimal, and 0 when no site qualified.
C25_RoundsHalfUp ==
    /\ calc.op = "roundToDecimal" =>
           LET v == calc.args[1]
               unit == IF calc.args[2] = 1 THEN 100 ELSE 10
           IN  /\ calc.summary = ((2 * v + unit) \div (2 * unit)) * unit
               /\ IsRoundedHalfUp(calc.summary, v, unit)
               /\ (2 * (v % unit) = unit) => calc.summary = v + unit \div 2
    /\ SummaryCalled =>
           /\ IsRoundedHalfUp(calc.summary.TotalFuelConsumed,
                              SumOfNonError(calc.args[1], "FuelConsumed"), 100)
           /\ IsRoundedHalfUp(calc.summary.TotalFuelTopped,
                              SumOfNonError(calc.args[1], "FuelTopped"), 100)
           /\ IsRoundedHalfUp(calc.summary.TotalGeneratorHours,
                              SumOfNonError(calc.args[1], "GeneratorHours"), 10)
           /\ IsRoundedHalfUp(calc.summary.TotalZesaHours,
                              SumOfNonError(calc.args[1], "ZesaHours"), 10)
           /\ IsRoundedHalfUp(calc.summary.TotalOfflineHours,
                              SumOfNonError(calc.args[1], "OfflineHours"), 10)
    /\ calc.op = "calculateRangeSummary" =>
           LET results == calc.args[1]
               n == Len(results)
               fuel == SumOfField(results, "TotalFuelConsumed")
               average == calc.summary.AverageFuelPerSite
           IN  /\ calc.summary.TotalSites = n
               /\ IsRoundedHalfUp(calc.summary.TotalFuelConsumed, fuel, 100)
               /\ IsRoundedHalfUp(calc.summary.TotalFuelTopped,
                                  SumOfField(results, "TotalFuelTopped"), 100)
               /\ IsRoundedHalfUp(calc.summary.TotalGeneratorHours,
                                  SumOfField(results, "TotalGeneratorHours"), 10)
               /\ IsRoundedHalfUp(calc.summary.TotalZesaHours,
                                  SumOfField(results, "TotalZesaHours"), 10)
               /\ IsRoundedHalfUp(calc.summary.TotalOfflineHours,
                                  SumOfField(results, "TotalOfflineHours"), 10)
               /\ n = 0 => average = 0
               /\ n > 0 => /\ average % 100 = 0
                           /\ 2 * n * average <= 2 * fuel + 100 * n
                           /\ 2 * fuel + 100 * n < 2 * n * average + 200 * n

\* roundToDecimal(0.25, 1) = 0.3, where rounding to the even neighbour
\* gives 0.2.
C25_Witness ==
    /\ calc.op = "roundToDecimal"
    /\ calc.args = <<250, 1>>
    /\ calc.summary = 300

(***************************************************************************)
(* The status two concurrent requests report, checked under SpecTwice.     *)
(***************************************************************************)
\* Both requests reported site s for the same date without error, and they
\* overlapped in time: each began before the other was answered.
ConcurrentlyCalculated(c1, c2, s) ==
    /\ c1 # c2
    /\ Succeeded(c1, s) /\ Succeeded(c2, s)
    /\ req[c1].date = req[c2].date
    /\ EventAt("begin", c1) < EventAt("done", c2)
    /\ EventAt("begin", c2) < EventAt("done", c1)

\* C26: in every interleaving of two concurrent single-day requests for the
\* same date that cover the same site, with no record stored at the start,
\* the status reported for the site matches what its upsert did: one request
\* reports CREATED and the other reports UPDATED.
C26_ConcurrentStatusMatchesUpsert ==
    \A c1 \in Clients, c2 \in Clients, s \in Sites :
        ConcurrentlyCalculated(c1, c2, s) =>
            {ResultOf(c1, s).Status, ResultOf(c2, s).Status} = {"CREATED", "UPDATED"}

\* Both requests report CREATED for site 1, while the store holds the one
\* record of site 1 for that day, created by one upsert and overwritten by
\* the other.
C26_Witness ==
    /\ ConcurrentlyCalculated(1, 2, 1)
    /\ ResultOf(1, 1).Status = "CREATED"
    /\ ResultOf(2, 1).Status = "CREATED"
    /\ Cardinality(RowsOf(1, req[1].date)) = 1
    /\ \E row \in RowsOf(1, req[1].date) : row.created_at < row.calculated_at

(***************************************************************************)
(* The days a range response reports, checked under SpecRange.             *)
(***************************************************************************)
\* The range request of c was accepted and answered with a summary.
RangeAnswered(c) == Done(c) /\ req[c].http = 200

\* C27: for every range request the handler accepts, both dates parsing,
\* summary.daysIncluded is at least 1, whatever the order of startDate and
\* endDate.
C27_DaysIncludedAtLeastOne ==
    \A c \in RangeClients :
        RangeAnswered(c) => req[c].body.summary.DaysIncluded >= 1

\* A range request from day 2 back to day 1 was answered with HTTP 200, no
\* site and daysIncluded = 0.
C27_Witness ==
    /\ RangeAnswered(3)
    /\ ~req[3].malformed
    /\ req[3].date = 2 /\ req[3].endDate = 1
    /\ Len(req[3].sites) > 0
    /\ req[3].body.sites = <<>>
    /\ req[3].body.summary.DaysIncluded = 0

(***************************************************************************)
(* The range of the run times, checked under SpecCalc.                     *)
(***************************************************************************)
\* The length of the window of the day, as hours.
WindowHours == Hours(endOfDay - startOfDay)

\* C28: over the samples of the day window in ascending time order,
\* calculateStateRuntime returns a value between 0 and the length of the
\* window, so that the generator hours and the zesa hours
\* CalculatePowerRuntimes returns never exceed 24 each, whatever the samples.
C28_RuntimeWithinWindow ==
    /\ (calc.op = "calculateStateRuntime" /\ ~calc.err) =>
           /\ calc.hours >= 0
           /\ calc.hours <= WindowHours
           /\ calc.hours <= Hours(HoursPerDay)
    /\ (calc.op = "CalculatePowerRuntimes" /\ ~calc.err) =>
           /\ calc.power.TotalGeneratorRuntime >= 0
           /\ calc.power.TotalGeneratorRuntime <= WindowHours
           /\ calc.power.TotalZesaRuntime >= 0
           /\ calc.power.TotalZesaRuntime <= WindowHours
           /\ calc.power.TotalGeneratorRuntime <= Hours(HoursPerDay)
           /\ calc.power.TotalZesaRuntime <= Hours(HoursPerDay)

\* The generator is ON from the first instant of the day, with a later ON
\* sample in the window and an ON sample after it: the run time is the
\* whole window and no more.
C28_Witness ==
    /\ calc.op = "calculateStateRuntime" /\ calc.sensor = "generator_state"
    /\ ~calc.err
    /\ Len(TheDay.generator_state) = 3
    /\ TheDay.generator_state[1] = [time |-> startOfDay, value |-> "1"]
    /\ TheDay.generator_state[2].time <= endOfDay
    /\ TheDay.generator_state[2].value = "1.0"
    /\ TheDay.generator_state[3].time > endOfDay
    /\ TheDay.generator_state[3].value = "1"
    /\ calc.hours = WindowHours

(***************************************************************************)
(* The totals of a day with the generator active, checked under SpecCalc.  *)
(***************************************************************************)
\* The values of the fuel samples of a sensor that parse, in time order.
ParsedValues(sensorName) ==
    LET rows == SelectSeq(TheDay.fuel,
                          LAMBDA r : r.sensor_name = sensorName /\ ParseFloat(r.value).ok)
    IN  [i \in 1..Len(rows) |-> ParseFloat(rows[i].value).value]

\* The generator was active that day: the noise gate is off.
GeneratorActiveThatDay ==
    \E i \in SamplesInDay : TheDay.generator_state[i].value \in OnTexts

FuelChangesOfActiveDay ==
    calc.op = "CalculateFuelChanges" /\ ~calc.err /\ GeneratorActiveThatDay

SitesWithLevel ==
    {dashboard.sites[i] : i \in {j \in 1..Len(dashboard.sites) :
                                    dashboard.readings[dashboard.sites[j]] = "level"}}

EntriesFor(site) ==
    {k \in 1..Len(dashboard.sitesWithReadings) :
        dashboard.sitesWithReadings[k].SiteID = site}

\* No goroutine has sent on a closed channel, and the list a pool returns
\* holds one entry for each site with a level and none for any other site.
PoolSafe ==
    /\ ~dashboard.panicked
    /\ dashboard.returned =>
           /\ \A site \in SitesWithLevel : Cardinality(EntriesFor(site)) = 1
           /\ \A site \in Sites \ SitesWithLevel : EntriesFor(site) = {}
           /\ Len(dashboard.sitesWithReadings) = Cardinality(SitesWithLevel)
           /\ \A w \in DOMAIN dashboard.worker : dashboard.worker[w].pc = "done"
           /\ dashboard.workChan = <<>> /\ dashboard.resultChan = <<>>

\* C30: the dashboard worker pools (15 workers for real time, 12 for daily
\* closing) terminate for any number of sites and any interleaving of the
\* producer, the workers, the closer and the collector, with no deadlock and
\* no send on a closed channel, and the list returned holds exactly one
\* entry for each site whose reading exists with a non-empty fuel level and
\* none for any other site (device ids distinct).
C30_PoolsTerminateWithEverySite ==
    /\ []PoolSafe
    /\ <>(dashboard.returned)

\* A daily-closing pool with fewer workers than sites has returned: three
\* sites, one without a reading and one with an empty level, and the list
\* holds the one site with a level.
C30_Witness ==
    /\ dashboard.mode = "daily"
    /\ dashboard.returned
    /\ Len(dashboard.sites) > dailyClosingWorkers
    /\ dashboard.readings[1] = "nil"
    /\ dashboard.readings[2] = "level"
    /\ dashboard.readings[3] = "empty"
    /\ dashboard.sitesWithReadings = <<[SiteID |-> 2]>>

====
